---- MODULE Spec2Model ----
(***************************************************************************)
(* The in-memory changelist/selection store (CommitStore), the optimistic  *)
(* operation runner (executeWithOptimisticUI) and the file watcher's skip  *)
(* flag.  Every handler is one action per synchronous block: an async      *)
(* method is split at each await that really suspends.                     *)
(***************************************************************************)
EXTENDS Integers, Sequences, FiniteSets, TLC

\* ------------------------------------------------------------------ bounds
\* file ids the backend can report
MaxFiles == 2
\* changelists ever created (generateId never repeats an id)
MaxCreated == 1
\* refresh() calls, moveFileToChangelist() calls and optimistic operations
\* that can be suspended at an await at the same time
MaxRefresh == 1
MaxMoves == 1
MaxOps == 1
\* refresh() calls in flight at a time where overlapping refreshes are studied
MaxOverlap == 2
\* FileItem objects alive at a time, in the store or held by a suspended call;
\* a refresh that would create more is not taken
MaxHeld == 2

FileIds == 1..MaxFiles
RefreshIds == 1..MaxRefresh
OverlapIds == 1..MaxOverlap
RefreshSlots == RefreshIds \cup OverlapIds
MoveIds == 1..MaxMoves
OpIds == 1..MaxOps

\* ------------------------------------------------------------ constants
DefaultChangelistId == "default"
DefaultChangelistName == "Changes"
UnversionedSnapshotKey == "__unversioned__"
Undefined == "undefined"
Names == {"Feature X", "Bugfix"}
\* what the user can type into the name input box
InputValues == {"Feature X", "Bugfix", " Bugfix ", DefaultChangelistName, "", " "}

Modified == "modified"
Added == "added"
Untracked == "untracked"

VARIABLES changelists, unversionedFiles, unversionedFilesExpanded, nextId,
          skipNext, refreshes, moves, ops, last, events

vars == <<changelists, unversionedFiles, unversionedFilesExpanded, nextId,
          skipNext, refreshes, moves, ops, last, events>>

\* ------------------------------------------------------------- helpers
Range(s) == {s[i] : i \in DOMAIN s}

\* Array.prototype.findIndex over the matching indexes I, 1-based; 0 when
\* nothing matches
FirstIn(I) == IF I = {} THEN 0 ELSE CHOOSE i \in I : \A j \in I : i <= j

\* Array.prototype.splice(i, 1)
Splice(s, i) == SubSeq(s, 1, i - 1) \o SubSeq(s, i + 1, Len(s))

\* the last matching index (the Map.set that wins), 0 when nothing matches
LastIn(I) == IF I = {} THEN 0 ELSE CHOOSE i \in I : \A j \in I : i >= j

\* the ids of a set in the order the backend lists them (ascending)
RECURSIVE SortedSeq(_)
SortedSeq(S) ==
    IF S = {} THEN <<>>
    ELSE LET m == CHOOSE x \in S : \A y \in S : x <= y
         IN <<m>> \o SortedSeq(S \ {m})

\* this.changelists.find((c) => c.id === id), as an index
ClIndex(cls, id) == FirstIn({i \in DOMAIN cls : cls[i].id = id})
HasCl(cls, id) == ClIndex(cls, id) # 0
\* this.changelists.find((c) => c.isDefault), as an index
DefaultIndex(cls) == FirstIn({i \in DOMAIN cls : cls[i].isDefault})

generateId(n) == "cl" \o ToString(n)

\* a FileItem as the backend builds it
NewFile(id, status) ==
    [id |-> id, status |-> status, isSelected |-> FALSE, changelistId |-> Undefined]

\* ---------------------------------------------------------------- Init
\* a default changelist that starts expanded
initializeDefaultChangelistExpanded ==
    <<[id |-> DefaultChangelistId, name |-> DefaultChangelistName, files |-> <<>>,
       isDefault |-> TRUE, isExpanded |-> TRUE]>>

initializeDefaultChangelist ==
    <<[id |-> DefaultChangelistId, name |-> DefaultChangelistName, files |-> <<>>,
       isDefault |-> TRUE, isExpanded |-> FALSE]>>

\* the store method that ran last (with the path it took) and the file ids
\* it was about: for an optimistic operation the ids it had removed, for a
\* refresh the tracked ids that no changelist held before
Did(op) == [op |-> op, ids |-> {}]

\* a refresh() call: where it is suspended and the result of getStatus(); as
\* history, the calls that were already running when it was made (after) and
\* whether one that was made later has completed before it (overtaken)
IdleRefresh == [pc |-> "idle", gitFiles |-> {}, after |-> {}, overtaken |-> FALSE]
IdleMove == [pc |-> "idle"]
IdleOp == [pc |-> "idle"]

Init ==
    /\ changelists = initializeDefaultChangelist
    /\ unversionedFiles = <<>>
    /\ unversionedFilesExpanded = TRUE
    /\ nextId = 1
    /\ skipNext = FALSE
    /\ refreshes = [r \in RefreshSlots |-> IdleRefresh]
    /\ moves = [m \in MoveIds |-> IdleMove]
    /\ ops = [o \in OpIds |-> IdleOp]
    /\ last = Did("init")
    /\ events = <<>>

\* --------------------------------------------------- store: pure parts
SetFiles(cls, i, files) == [cls EXCEPT ![i].files = files]

\* all files of the store, changelists first, then the unversioned bucket
RECURSIVE ConcatFiles(_, _)
ConcatFiles(cls, i) ==
    IF i > Len(cls) THEN <<>> ELSE cls[i].files \o ConcatFiles(cls, i + 1)

getAllFiles(cls, unv) == ConcatFiles(cls, 1) \o unv

\* getSelectedFiles without the unversioned bucket
getSelectedFilesListsOnly(cls, unv) ==
    SelectSeq(ConcatFiles(cls, 1), LAMBDA f : f.isSelected)

getSelectedFiles(cls, unv) == SelectSeq(getAllFiles(cls, unv), LAMBDA f : f.isSelected)

\* createChangelist pushing a collapsed changelist
createChangelistCollapsed(cls, id, name) ==
    Append(cls, [id |-> id, name |-> name, files |-> <<>>,
                 isDefault |-> FALSE, isExpanded |-> FALSE])

\* createChangelist: the pushed list
createChangelist(cls, id, name) ==
    Append(cls, [id |-> id, name |-> name, files |-> <<>>,
                 isDefault |-> FALSE, isExpanded |-> TRUE])

\* deleteChangelist without the isDefault guard
deleteChangelistAny(cls, changelistId) ==
    LET i == ClIndex(cls, changelistId)
        d == DefaultIndex(cls)
    IN IF i = 0 THEN cls
       ELSE LET moved == IF d # 0 /\ Len(cls[i].files) > 0
                         THEN SetFiles(cls, d, cls[d].files \o cls[i].files)
                         ELSE cls
            IN SelectSeq(moved, LAMBDA c : c.id # changelistId)

\* deleteChangelist without the transfer to the default changelist
deleteChangelistDropFiles(cls, changelistId) ==
    LET i == ClIndex(cls, changelistId)
    IN IF i = 0 \/ cls[i].isDefault THEN cls
       ELSE SelectSeq(cls, LAMBDA c : c.id # changelistId)

\* deleteChangelist: the list after the call
deleteChangelist(cls, changelistId) ==
    LET i == ClIndex(cls, changelistId)
        d == DefaultIndex(cls)
    IN IF i = 0 \/ cls[i].isDefault THEN cls
       ELSE LET moved == IF d # 0 /\ Len(cls[i].files) > 0
                         THEN SetFiles(cls, d, cls[d].files \o cls[i].files)
                         ELSE cls
            IN SelectSeq(moved, LAMBDA c : c.id # changelistId)

\* the naming conflict without the c.id !== changelistId part
renameConflictAnyId(cls, changelistId, newName) ==
    /\ HasCl(cls, changelistId)
    /\ \E i \in DOMAIN cls : cls[i].name = newName

\* renameChangelist: TRUE when the call throws the naming conflict
renameConflict(cls, changelistId, newName) ==
    /\ HasCl(cls, changelistId)
    /\ \E i \in DOMAIN cls : cls[i].name = newName /\ cls[i].id # changelistId

renameChangelist(cls, changelistId, newName) ==
    LET i == ClIndex(cls, changelistId)
    IN IF i = 0 \/ renameConflict(cls, changelistId, newName) THEN cls
       ELSE [cls EXCEPT ![i].name = newName]

\* moveChangelistFiles without the changelistId reassignment
moveChangelistFilesKeepId(cls, sourceId, targetId) ==
    LET s == ClIndex(cls, sourceId)
        t == ClIndex(cls, targetId)
    IN IF s = 0 \/ t = 0 THEN cls
       ELSE LET emptied == SetFiles(cls, s, <<>>)
            IN [emptied EXCEPT ![t].files = emptied[t].files \o cls[s].files,
                               ![t].isExpanded = TRUE]

\* moveChangelistFiles pushing into a target list that the emptying of the
\* source has emptied too
moveChangelistFilesEmptying(cls, sourceId, targetId) ==
    LET s == ClIndex(cls, sourceId)
        t == ClIndex(cls, targetId)
    IN IF s = 0 \/ t = 0 THEN cls
       ELSE LET filesToMove == [k \in DOMAIN cls[s].files |->
                                   [cls[s].files[k] EXCEPT !.changelistId = targetId]]
                emptied == SetFiles(cls, s, <<>>)
            IN IF s = t THEN [emptied EXCEPT ![t].isExpanded = TRUE]
               ELSE [emptied EXCEPT ![t].files = emptied[t].files \o filesToMove,
                                    ![t].isExpanded = TRUE]

\* moveChangelistFiles: the list after the call
moveChangelistFiles(cls, sourceId, targetId) ==
    LET s == ClIndex(cls, sourceId)
        t == ClIndex(cls, targetId)
    IN IF s = 0 \/ t = 0 THEN cls
       ELSE LET filesToMove == [k \in DOMAIN cls[s].files |->
                                   [cls[s].files[k] EXCEPT !.changelistId = targetId]]
                emptied == SetFiles(cls, s, <<>>)
            IN [emptied EXCEPT ![t].files = emptied[t].files \o filesToMove,
                               ![t].isExpanded = TRUE]

\* the first changelist that holds fileId (the loop of moveFileToChangelist
\* and of toggleFileSelection), 0 when none does
Holders(cls, fileId) ==
    {i \in DOMAIN cls : \E k \in DOMAIN cls[i].files : cls[i].files[k].id = fileId}

HolderIndex(cls, fileId) == FirstIn(Holders(cls, fileId))

FileIndex(files, fileId) == FirstIn({k \in DOMAIN files : files[k].id = fileId})
LastFileIndex(files, fileId) == LastIn({k \in DOMAIN files : files[k].id = fileId})

SetSelected(files, k, v) == [files EXCEPT ![k].isSelected = v]
\* a forEach that inverts every flag instead of setting it
SetAllSelectedInvert(files, v) ==
    [k \in DOMAIN files |-> [files[k] EXCEPT !.isSelected = ~files[k].isSelected]]

SetAllSelected(files, v) == [k \in DOMAIN files |-> [files[k] EXCEPT !.isSelected = v]]

\* removeCommittedFiles recording an entry for every container
removedSnapshotAllKeys(cls, unv, fileIds) ==
    [i \in DOMAIN cls |->
        [key |-> cls[i].id,
         files |-> SelectSeq(cls[i].files, LAMBDA f : f.id \in fileIds)]]
    \o <<[key |-> UnversionedSnapshotKey,
          files |-> SelectSeq(unv, LAMBDA f : f.id \in fileIds)]>>

\* removeCommittedFiles: the snapshot, a Map in insertion order
removedSnapshot(cls, unv, fileIds) ==
    LET perList == [i \in DOMAIN cls |->
                       [key |-> cls[i].id,
                        files |-> SelectSeq(cls[i].files, LAMBDA f : f.id \in fileIds)]]
        bucket == [key |-> UnversionedSnapshotKey,
                   files |-> SelectSeq(unv, LAMBDA f : f.id \in fileIds)]
    IN SelectSeq(perList \o <<bucket>>, LAMBDA e : Len(e.files) > 0)

\* removeCommittedFiles: what stays
keptChangelists(cls, fileIds) ==
    [i \in DOMAIN cls |->
        [cls[i] EXCEPT !.files = SelectSeq(cls[i].files, LAMBDA f : f.id \notin fileIds)]]

keptUnversioned(unv, fileIds) == SelectSeq(unv, LAMBDA f : f.id \notin fileIds)

\* the files a snapshot records under key, <<>> when it has no such entry
SnapshotFiles(snapshot, key) ==
    LET e == FirstIn({x \in DOMAIN snapshot : snapshot[x].key = key})
    IN IF e = 0 THEN <<>> ELSE snapshot[e].files

\* restoreFiles putting every changelist entry back into the default changelist
restoredIntoDefault(cls, snapshot) ==
    LET d == DefaultIndex(cls)
        RECURSIVE All(_)
        All(e) == IF e > Len(snapshot) THEN <<>>
                  ELSE (IF snapshot[e].key = UnversionedSnapshotKey THEN <<>>
                        ELSE snapshot[e].files) \o All(e + 1)
    IN [cls EXCEPT ![d].files = cls[d].files \o All(1)]

\* restoreFiles
restoredChangelists(cls, snapshot) ==
    [i \in DOMAIN cls |->
        [cls[i] EXCEPT !.files = cls[i].files \o SnapshotFiles(snapshot, cls[i].id)]]

restoredUnversioned(unv, snapshot) ==
    unv \o SnapshotFiles(snapshot, UnversionedSnapshotKey)

\* ------------------------------------------- loadGitStatus: reconciliation
\* selectionMap.has(id): some changelist or the bucket holds the id
SelectionHas(cls, unv, id) == HolderIndex(cls, id) # 0 \/ FileIndex(unv, id) # 0

\* selectionMap.get(id): the last set() wins; changelists in order, each list
\* in order, then the unversioned bucket
SelectionGet(cls, unv, id) ==
    LET u == LastFileIndex(unv, id)
        h == LastIn(Holders(cls, id))
    IN IF u # 0 THEN unv[u].isSelected
       ELSE cls[h].files[LastFileIndex(cls[h].files, id)].isSelected

\* changelistAssignmentMap.get(id), Undefined when the map has no entry
AssignmentGet(cls, id) ==
    LET h == LastIn(Holders(cls, id))
    IN IF h = 0 THEN Undefined ELSE cls[h].id

\* a reconciliation that takes the fetched file as the backend returned it
CarriedFresh(cls, unv, file) == file

\* a fetched file after the selection has been carried over
Carried(cls, unv, file) ==
    IF SelectionHas(cls, unv, file.id)
    THEN [file EXCEPT !.isSelected = SelectionGet(cls, unv, file.id)]
    ELSE file

\* an unassigned file pushed to the newest changelist instead of the default
TargetIndexNewest(cls, id) ==
    IF AssignmentGet(cls, id) # Undefined
    THEN ClIndex(cls, AssignmentGet(cls, id))
    ELSE Len(cls)

\* the index of the changelist a fetched tracked file is pushed to, 0 for none
TargetIndex(cls, id) ==
    IF AssignmentGet(cls, id) # Undefined
    THEN ClIndex(cls, AssignmentGet(cls, id))
    ELSE DefaultIndex(cls)

\* getStatus() / getUnversionedFiles(): fresh FileItems, in the backend's order
gitStatusFiles(tracked) ==
    LET ids == SortedSeq(tracked) IN [k \in DOMAIN ids |-> NewFile(ids[k], Modified)]
gitUnversionedFiles(untracked) ==
    LET ids == SortedSeq(untracked) IN [k \in DOMAIN ids |-> NewFile(ids[k], Untracked)]

\* a reconciliation that expands every changelist that receives a file
reconciledChangelistsExpanding(cls, unv, gitFiles) ==
    LET tracked == SelectSeq(gitFiles, LAMBDA f : f.status # Untracked)
    IN [i \in DOMAIN cls |->
          LET mine == SelectSeq(tracked, LAMBDA f : TargetIndex(cls, f.id) = i)
          IN [cls[i] EXCEPT !.files =
                 [k \in DOMAIN mine |->
                     [Carried(cls, unv, mine[k]) EXCEPT !.changelistId = cls[i].id]],
                            !.isExpanded = cls[i].isExpanded \/ Len(mine) > 0]]

reconciledChangelists(cls, unv, gitFiles) ==
    LET tracked == SelectSeq(gitFiles, LAMBDA f : f.status # Untracked)
    IN [i \in DOMAIN cls |->
          LET mine == SelectSeq(tracked, LAMBDA f : TargetIndex(cls, f.id) = i)
          IN [cls[i] EXCEPT !.files =
                 [k \in DOMAIN mine |->
                     [Carried(cls, unv, mine[k]) EXCEPT !.changelistId = cls[i].id]]]]

\* a reconciliation that leaves the previous bucket files in place
reconciledUnversionedKeeping(cls, unv, fetched) ==
    unv \o [k \in DOMAIN fetched |-> Carried(cls, unv, fetched[k])]

\* this.unversionedFiles = unversionedFiles.map(...): the bucket is replaced
reconciledUnversioned(cls, unv, fetched) ==
    [k \in DOMAIN fetched |-> Carried(cls, unv, fetched[k])]

\* ------------------------------------------------------------- actions
\* the ids an optimistic operation removed
RemovedIds(snapshot) ==
    {f.id : f \in UNION {Range(snapshot[e].files) : e \in DOMAIN snapshot}}

\* how often a file id occurs in a list, in the changelists, in the store
Copies(files, id) == Len(SelectSeq(files, LAMBDA f : f.id = id))

RECURSIVE CopiesInLists(_, _, _)
CopiesInLists(cls, i, id) ==
    IF i > Len(cls) THEN 0 ELSE Copies(cls[i].files, id) + CopiesInLists(cls, i + 1, id)

CopiesInStore(cls, unv, id) == CopiesInLists(cls, 1, id) + Copies(unv, id)

\* the ids the store holds more than once
Duplicated == {f \in FileIds : CopiesInStore(changelists, unversionedFiles, f) > 1}

Fire == <<"change">>
Created(id) == <<"created", id>>
AutoExpand(id) == <<"autoExpand", id>>
Return(value) == <<"return", value>>

\* history kept for running operations: another store call while one is
\* awaited makes its recorded pre-call state stale
OthersDirty(except) ==
    [o \in OpIds |->
        IF o # except /\ ops[o].pc = "operation"
        THEN [ops[o] EXCEPT !.dirty = TRUE, !.preLists = <<>>, !.preBucket = <<>>]
        ELSE ops[o]]

Touch == ops' = OthersDirty(0)

ExistingIds == {changelists[i].id : i \in DOMAIN changelists}
MissingId == "missing"
TargetIds == ExistingIds \cup {MissingId}

\* the refresh() calls that are suspended
Running == {q \in DOMAIN refreshes : refreshes[q].pc # "idle"}

\* refresh() r returns; completed says that it reconciled
Finish(r, completed) ==
    [q \in DOMAIN refreshes |->
        IF q = r THEN IdleRefresh
        ELSE [refreshes[q] EXCEPT
                 !.after = @ \ {r},
                 !.overtaken = @ \/ (completed /\ q \in refreshes[r].after
                                               /\ q \in Running)]]

\* refresh(): the call, up to the first await
RefreshCall(r) ==
    /\ refreshes[r].pc = "idle"
    /\ refreshes' = [refreshes EXCEPT ![r].pc = "getStatus", ![r].after = Running]
    /\ last' = Did("refresh.call")
    /\ events' = <<>>
    /\ UNCHANGED <<changelists, unversionedFiles, unversionedFilesExpanded, nextId,
                   skipNext, moves, ops>>

\* await getStatus() resolves
GetStatusResolve(r, tracked) ==
    /\ refreshes[r].pc = "getStatus"
    /\ refreshes' = [refreshes EXCEPT ![r].pc = "getUnversioned", ![r].gitFiles = tracked]
    /\ last' = Did("refresh.getStatus")
    /\ events' = <<>>
    /\ UNCHANGED <<changelists, unversionedFiles, unversionedFilesExpanded, nextId,
                   skipNext, moves, ops>>

\* a loadGitStatus that clears the file lists before it queries the backend
RefreshFailCleared(r) ==
    /\ refreshes[r].pc \in {"getStatus", "getUnversioned"}
    /\ changelists' = [i \in DOMAIN changelists |-> [changelists[i] EXCEPT !.files = <<>>]]
    /\ refreshes' = Finish(r, FALSE)
    /\ last' = Did("refresh.failed." \o refreshes[r].pc)
    /\ events' = <<Fire>>
    /\ Touch
    /\ UNCHANGED <<unversionedFiles, unversionedFilesExpanded, nextId, skipNext, moves>>

\* getStatus() or getUnversionedFiles() rejects: the catch, then the fire
RefreshFail(r) ==
    /\ refreshes[r].pc \in {"getStatus", "getUnversioned"}
    /\ refreshes' = Finish(r, FALSE)
    /\ last' = Did("refresh.failed." \o refreshes[r].pc)
    /\ events' = <<Fire>>
    /\ Touch
    /\ UNCHANGED <<changelists, unversionedFiles, unversionedFilesExpanded, nextId,
                   skipNext, moves>>

\* FileItems held outside the store: in the snapshots of running operations
\* and in the local variable of suspended moves
RECURSIVE SnapshotSize(_, _)
SnapshotSize(snapshot, e) ==
    IF e > Len(snapshot) THEN 0
    ELSE Len(snapshot[e].files) + SnapshotSize(snapshot, e + 1)

RECURSIVE InFlight(_, _)
InFlight(O, M) ==
    IF O # {} THEN LET o == CHOOSE x \in O : TRUE
                   IN (IF ops[o].pc = "operation" THEN SnapshotSize(ops[o].snapshot, 1)
                       ELSE 0) + InFlight(O \ {o}, M)
    ELSE IF M # {} THEN LET m == CHOOSE x \in M : TRUE
                        IN (IF moves[m].pc = "addFileToGit" THEN 1 ELSE 0)
                           + InFlight(O, M \ {m})
    ELSE 0

\* a refresh that drops its result when a later call has already completed
RefreshReconcileDropStale(r, untracked) ==
    /\ refreshes[r].pc = "getUnversioned"
    /\ untracked \cap refreshes[r].gitFiles = {}
    /\ Cardinality(untracked \cup refreshes[r].gitFiles) + InFlight(OpIds, MoveIds) <= MaxHeld
    /\ IF refreshes[r].overtaken
       THEN UNCHANGED <<changelists, unversionedFiles>>
       ELSE /\ changelists' = reconciledChangelists(changelists, unversionedFiles,
                                                    gitStatusFiles(refreshes[r].gitFiles))
            /\ unversionedFiles' = reconciledUnversioned(changelists, unversionedFiles,
                                                         gitUnversionedFiles(untracked))
    /\ refreshes' = Finish(r, TRUE)
    /\ last' = [op |-> IF refreshes[r].overtaken THEN "refresh.overtaken" ELSE "refresh",
                ids |-> {f \in refreshes[r].gitFiles : Holders(changelists, f) = {}},
                dups |-> Duplicated,
                prev |-> [op |-> last.op, ids |-> last.ids]]
    /\ events' = <<Fire>>
    /\ Touch
    /\ UNCHANGED <<unversionedFilesExpanded, nextId, skipNext, moves>>

\* await getUnversionedFiles() resolves: the reconciliation, then the fire
RefreshReconcile(r, untracked) ==
    /\ refreshes[r].pc = "getUnversioned"
    /\ untracked \cap refreshes[r].gitFiles = {}
    /\ Cardinality(untracked \cup refreshes[r].gitFiles) + InFlight(OpIds, MoveIds) <= MaxHeld
    /\ changelists' = reconciledChangelists(changelists, unversionedFiles,
                                            gitStatusFiles(refreshes[r].gitFiles))
    /\ unversionedFiles' = reconciledUnversioned(changelists, unversionedFiles,
                                                 gitUnversionedFiles(untracked))
    /\ refreshes' = Finish(r, TRUE)
    /\ last' = [op |-> IF refreshes[r].overtaken THEN "refresh.overtaken" ELSE "refresh",
                ids |-> {f \in refreshes[r].gitFiles : Holders(changelists, f) = {}},
                dups |-> Duplicated,
                prev |-> [op |-> last.op, ids |-> last.ids]]
    /\ events' = <<Fire>>
    /\ Touch
    /\ UNCHANGED <<unversionedFilesExpanded, nextId, skipNext, moves>>

CreateChangelist(name) ==
    /\ nextId <= MaxCreated
    /\ changelists' = createChangelist(changelists, generateId(nextId), name)
    /\ nextId' = nextId + 1
    /\ last' = Did("createChangelist")
    /\ events' = <<Fire, Created(generateId(nextId))>>
    /\ Touch
    /\ UNCHANGED <<unversionedFiles, unversionedFilesExpanded, skipNext, refreshes, moves>>

\* String.prototype.trim on the values the input box can hold
Trim(value) ==
    CASE value = " Bugfix " -> "Bugfix"
      [] value = " " -> ""
      [] OTHER -> value

NoMessage == "null"

\* validateInput without the name-collision check
validateInputEmptyOnly(cls, value) ==
    IF value = "" \/ Trim(value) = "" THEN "Changelist name cannot be empty"
    ELSE NoMessage

\* validateInput of the create-changelist input box: the message, or null
validateInput(cls, value) ==
    IF value = "" \/ Trim(value) = "" THEN "Changelist name cannot be empty"
    ELSE IF \E i \in DOMAIN cls : cls[i].name = Trim(value)
    THEN "Changelist with this name already exists"
    ELSE NoMessage

\* the CreateChangelist command: the input box accepts a value only when
\* validateInput returns null, and the store is called with the trimmed name
CreateChangelistCommand(value) ==
    IF validateInput(changelists, value) # NoMessage
    THEN /\ last' = Did(validateInput(changelists, value))
         /\ events' = <<>>
         /\ UNCHANGED <<changelists, unversionedFiles, unversionedFilesExpanded, nextId,
                        skipNext, refreshes, moves, ops>>
    ELSE CreateChangelist(Trim(value))

DeleteChangelist(changelistId) ==
    /\ changelists' = deleteChangelist(changelists, changelistId)
    /\ last' = Did(IF ~HasCl(changelists, changelistId) THEN "deleteChangelist.notFound"
                    ELSE IF changelists[ClIndex(changelists, changelistId)].isDefault
                    THEN "deleteChangelist.isDefault"
                    ELSE "deleteChangelist.deleted")
    /\ events' = IF ~HasCl(changelists, changelistId)
                    \/ changelists[ClIndex(changelists, changelistId)].isDefault
                 THEN <<>> ELSE <<Fire>>
    /\ Touch
    /\ UNCHANGED <<unversionedFiles, unversionedFilesExpanded, nextId, skipNext,
                   refreshes, moves>>

RenameChangelist(changelistId, newName) ==
    /\ changelists' = renameChangelist(changelists, changelistId, newName)
    /\ last' = Did(IF ~HasCl(changelists, changelistId) THEN "renameChangelist.notFound"
                    ELSE IF renameConflict(changelists, changelistId, newName)
                    THEN "renameChangelist.conflict"
                    ELSE "renameChangelist.renamed")
    /\ events' = IF ~HasCl(changelists, changelistId)
                    \/ renameConflict(changelists, changelistId, newName)
                 THEN <<>> ELSE <<Fire>>
    /\ Touch
    /\ UNCHANGED <<unversionedFiles, unversionedFilesExpanded, nextId, skipNext,
                   refreshes, moves>>

MoveChangelistFiles(sourceId, targetId) ==
    /\ changelists' = moveChangelistFiles(changelists, sourceId, targetId)
    /\ last' = IF ~HasCl(changelists, sourceId) \/ ~HasCl(changelists, targetId)
               THEN Did("moveChangelistFiles.notFound")
               ELSE [op |-> IF sourceId = targetId THEN "moveChangelistFiles.sameList"
                            ELSE "moveChangelistFiles.moved",
                     ids |-> {f.id : f \in Range(changelists[ClIndex(changelists,
                                                                     sourceId)].files)}]
    /\ events' = IF HasCl(changelists, sourceId) /\ HasCl(changelists, targetId)
                 THEN <<Fire, AutoExpand(targetId)>> ELSE <<>>
    /\ Touch
    /\ UNCHANGED <<unversionedFiles, unversionedFilesExpanded, nextId, skipNext,
                   refreshes, moves>>

\* moveFileToChangelist, the synchronous part: the file found (or Undefined),
\* the containers after the splice
MoveSource(cls, unv, fileId) ==
    LET h == HolderIndex(cls, fileId)
        u == FileIndex(unv, fileId)
    IN IF h # 0
       THEN [found |-> TRUE, wasUntracked |-> FALSE,
             file |-> cls[h].files[FileIndex(cls[h].files, fileId)],
             lists |-> SetFiles(cls, h, Splice(cls[h].files, FileIndex(cls[h].files, fileId))),
             bucket |-> unv]
       ELSE IF u # 0
       THEN [found |-> TRUE, wasUntracked |-> TRUE, file |-> unv[u],
             lists |-> cls, bucket |-> Splice(unv, u)]
       ELSE [found |-> FALSE, wasUntracked |-> FALSE, file |-> Undefined,
             lists |-> cls, bucket |-> unv]

\* the tail of moveFileToChangelist: reassign, push, expand.  targetChangelist
\* is the object found before the await: a list deleted since is not in
\* this.changelists any more and the push goes to the orphan.
pushToTarget(cls, file, targetId) ==
    LET t == ClIndex(cls, targetId)
    IN IF t = 0 THEN cls
       ELSE [cls EXCEPT ![t].files = Append(cls[t].files,
                                            [file EXCEPT !.changelistId = targetId]),
                        ![t].isExpanded = TRUE]

MoveFileToChangelist(fileId, targetId) ==
    LET src == MoveSource(changelists, unversionedFiles, fileId)
    IN /\ Touch
       /\ UNCHANGED <<unversionedFilesExpanded, nextId, skipNext, refreshes>>
       /\ IF ~src.found
          THEN /\ UNCHANGED <<changelists, unversionedFiles, moves>>
               /\ last' = Did("moveFileToChangelist.fileNotFound")
               /\ events' = <<Fire>>
          ELSE IF ~HasCl(src.lists, targetId)
          THEN /\ changelists' = src.lists
               /\ unversionedFiles' = src.bucket
               /\ UNCHANGED moves
               /\ last' = Did("moveFileToChangelist.targetNotFound")
               /\ events' = <<Fire>>
          ELSE IF src.wasUntracked
          THEN \E m \in MoveIds :
               /\ moves[m].pc = "idle"
               /\ \A n \in MoveIds : n < m => moves[n].pc # "idle"
               /\ changelists' = src.lists
               /\ unversionedFiles' = src.bucket
               /\ moves' = [moves EXCEPT ![m] = [pc |-> "addFileToGit", file |-> src.file,
                                                 target |-> targetId]]
               /\ last' = Did("moveFileToChangelist.awaitAdd")
               /\ events' = <<>>
          ELSE /\ changelists' = pushToTarget(src.lists, src.file, targetId)
               /\ unversionedFiles' = src.bucket
               /\ UNCHANGED moves
               /\ last' = Did("moveFileToChangelist.moved")
               /\ events' = <<AutoExpand(targetId), Fire>>

\* the success path without file.status = FileStatus.Added
AddFileToGitResolveKeepStatus(m) ==
    /\ moves[m].pc = "addFileToGit"
    /\ changelists' = pushToTarget(changelists, moves[m].file, moves[m].target)
    /\ moves' = [moves EXCEPT ![m] = IdleMove]
    /\ last' = Did("moveFileToChangelist.added")
    /\ events' = <<AutoExpand(moves[m].target), Fire>>
    /\ Touch
    /\ UNCHANGED <<unversionedFiles, unversionedFilesExpanded, nextId, skipNext, refreshes>>

\* await addFileToGit() resolves
AddFileToGitResolve(m) ==
    /\ moves[m].pc = "addFileToGit"
    /\ changelists' = pushToTarget(changelists, [moves[m].file EXCEPT !.status = Added],
                                   moves[m].target)
    /\ moves' = [moves EXCEPT ![m] = IdleMove]
    /\ last' = Did("moveFileToChangelist.added")
    /\ events' = <<AutoExpand(moves[m].target), Fire>>
    /\ Touch
    /\ UNCHANGED <<unversionedFiles, unversionedFilesExpanded, nextId, skipNext, refreshes>>

\* the catch block without the push back into the unversioned bucket
AddFileToGitRejectDrop(m) ==
    /\ moves[m].pc = "addFileToGit"
    /\ moves' = [moves EXCEPT ![m] = IdleMove]
    /\ last' = Did("moveFileToChangelist.addFailed")
    /\ events' = <<Fire>>
    /\ Touch
    /\ UNCHANGED <<changelists, unversionedFiles, unversionedFilesExpanded, nextId,
                   skipNext, refreshes>>

\* await addFileToGit() rejects: the catch block
AddFileToGitReject(m) ==
    /\ moves[m].pc = "addFileToGit"
    /\ unversionedFiles' = Append(unversionedFiles, moves[m].file)
    /\ moves' = [moves EXCEPT ![m] = IdleMove]
    /\ last' = Did("moveFileToChangelist.addFailed")
    /\ events' = <<Fire>>
    /\ Touch
    /\ UNCHANGED <<changelists, unversionedFilesExpanded, nextId, skipNext, refreshes>>

\* toggleFileSelection(fileId, isSelected?): arg is TRUE, FALSE or Undefined
toggledValue(file, arg) == IF arg # Undefined THEN arg = "true" ELSE ~file.isSelected

ToggleFileSelection(fileId, arg) ==
    LET h == HolderIndex(changelists, fileId)
        u == FileIndex(unversionedFiles, fileId)
    IN /\ IF h # 0
          THEN LET k == FileIndex(changelists[h].files, fileId)
               IN /\ changelists' = SetFiles(changelists, h,
                        SetSelected(changelists[h].files, k,
                                    toggledValue(changelists[h].files[k], arg)))
                  /\ UNCHANGED unversionedFiles
                  /\ events' = <<Fire>>
          ELSE IF u # 0
          THEN /\ unversionedFiles' = SetSelected(unversionedFiles, u,
                                         toggledValue(unversionedFiles[u], arg))
               /\ UNCHANGED changelists
               /\ events' = <<Fire>>
          ELSE /\ UNCHANGED <<changelists, unversionedFiles>>
               /\ events' = <<>>
       /\ last' = Did("toggleFileSelection")
       /\ Touch
       /\ UNCHANGED <<unversionedFilesExpanded, nextId, skipNext, refreshes, moves>>

ToggleChangelistSelection(changelistId, isSelected) ==
    LET i == ClIndex(changelists, changelistId)
    IN /\ changelists' = IF i = 0 THEN changelists
                         ELSE SetFiles(changelists, i,
                                       SetAllSelected(changelists[i].files, isSelected))
       /\ events' = IF i = 0 THEN <<>> ELSE <<Fire>>
       /\ last' = Did("toggleChangelistSelection")
       /\ Touch
       /\ UNCHANGED <<unversionedFiles, unversionedFilesExpanded, nextId, skipNext,
                      refreshes, moves>>

ToggleUnversionedSelection(isSelected) ==
    /\ unversionedFiles' = SetAllSelected(unversionedFiles, isSelected)
    /\ events' = <<Fire>>
    /\ last' = Did("toggleUnversionedSelection")
    /\ Touch
    /\ UNCHANGED <<changelists, unversionedFilesExpanded, nextId, skipNext, refreshes, moves>>

\* the name of a call, marked when it directly follows the same call
Repeated(name) == IF last.op \in {name, name \o ".again"} THEN name \o ".again" ELSE name

\* selectAllFiles() / deselectAllFiles()
SetEverySelection(isSelected) ==
    /\ changelists' = [i \in DOMAIN changelists |->
                          [changelists[i] EXCEPT
                              !.files = SetAllSelected(changelists[i].files, isSelected)]]
    /\ unversionedFiles' = SetAllSelected(unversionedFiles, isSelected)
    /\ events' = <<Fire>>
    /\ last' = Did(Repeated(IF isSelected THEN "selectAllFiles" ELSE "deselectAllFiles"))
    /\ Touch
    /\ UNCHANGED <<unversionedFilesExpanded, nextId, skipNext, refreshes, moves>>

CollapseAll ==
    /\ changelists' = [i \in DOMAIN changelists |->
                          [changelists[i] EXCEPT !.isExpanded = FALSE]]
    /\ unversionedFilesExpanded' = FALSE
    /\ events' = <<Fire>>
    /\ last' = Did(Repeated("collapseAll"))
    /\ Touch
    /\ UNCHANGED <<unversionedFiles, nextId, skipNext, refreshes, moves>>

SetUnversionedExpanded(expanded) ==
    /\ unversionedFilesExpanded' = expanded
    /\ events' = <<>>
    /\ last' = Did("setUnversionedExpanded")
    /\ Touch
    /\ UNCHANGED <<changelists, unversionedFiles, nextId, skipNext, refreshes, moves>>

SetChangelistExpanded(changelistId, expanded) ==
    LET i == ClIndex(changelists, changelistId)
    IN /\ changelists' = IF i = 0 THEN changelists
                         ELSE [changelists EXCEPT ![i].isExpanded = expanded]
       /\ events' = <<>>
       /\ last' = Did("setChangelistExpanded")
       /\ Touch
       /\ UNCHANGED <<unversionedFiles, unversionedFilesExpanded, nextId, skipNext,
                      refreshes, moves>>

\* the getters: the value each returns
Queries == {"getChangelists", "getSelectedFiles", "getAllFiles", "getUnversionedFiles",
            "isUnversionedExpanded"}

QueryResult(q) ==
    CASE q = "getChangelists" -> changelists
      [] q = "getSelectedFiles" -> getSelectedFiles(changelists, unversionedFiles)
      [] q = "getAllFiles" -> getAllFiles(changelists, unversionedFiles)
      [] q = "getUnversionedFiles" -> unversionedFiles
      [] q = "isUnversionedExpanded" -> unversionedFilesExpanded

Query(q) ==
    /\ last' = Did(q)
    /\ events' = <<Return(QueryResult(q))>>
    /\ UNCHANGED <<changelists, unversionedFiles, unversionedFilesExpanded, nextId,
                   skipNext, refreshes, moves, ops>>

\* executeWithOptimisticUI up to the await: skipNextRefresh(), removeCommittedFiles()
\* executeWithOptimisticUI up to await params.operation(); push is the
\* caller's choice.push, FALSE for a caller that never pushes
RunOptimistic(o, fileIds, push) ==
    /\ skipNext' = TRUE
    /\ changelists' = keptChangelists(changelists, fileIds)
    /\ unversionedFiles' = keptUnversioned(unversionedFiles, fileIds)
    /\ ops' = [OthersDirty(o) EXCEPT ![o] =
                 [pc |-> "operation", fileIds |-> fileIds,
                  snapshot |-> removedSnapshot(changelists, unversionedFiles, fileIds),
                  dirty |-> FALSE, preLists |-> changelists,
                  preBucket |-> unversionedFiles, push |-> push]]
    /\ last' = [op |-> "optimistic.start", ids |-> {}, armed |-> skipNext]
    /\ events' = <<<<"skipNextRefresh">>, Fire>>
    /\ UNCHANGED <<unversionedFilesExpanded, nextId, refreshes, moves>>

\* a revert command past its confirmation: revertFiles through the protocol
OptimisticStart(o, fileIds) ==
    /\ ops[o].pc = "idle"
    /\ \A n \in OpIds : n < o => ops[n].pc # "idle"
    /\ RunOptimistic(o, fileIds, FALSE)

\* the ids of getSelectedFiles()
SelectedIds == {f.id : f \in Range(getSelectedFiles(changelists, unversionedFiles))}

\* executeCommitFlow up to its first prompt: the selection is read here
CommitFlow(o) ==
    /\ ops[o].pc = "idle"
    /\ \A n \in OpIds : n < o => ops[n].pc # "idle"
    /\ SelectedIds # {}
    /\ ops' = [ops EXCEPT ![o] = [pc |-> "commit.prompt", fileIds |-> SelectedIds]]
    /\ last' = Did("commit.prompt")
    /\ events' = <<>>
    /\ UNCHANGED <<changelists, unversionedFiles, unversionedFilesExpanded, nextId,
                   skipNext, refreshes, moves>>

\* the message box or the action pick is dismissed
CommitCancel(o) ==
    /\ ops[o].pc = "commit.prompt"
    /\ ops' = [ops EXCEPT ![o] = IdleOp]
    /\ last' = Did("commit.cancelled")
    /\ events' = <<>>
    /\ UNCHANGED <<changelists, unversionedFiles, unversionedFilesExpanded, nextId,
                   skipNext, refreshes, moves>>

\* an action is picked: commitFiles runs through the protocol
CommitChoose(o, push) ==
    /\ ops[o].pc = "commit.prompt"
    /\ RunOptimistic(o, ops[o].fileIds, push)

\* a commit flow that pushes whatever commitFiles returned
AfterOperationPushAlways(op, success) ==
    IF op.push THEN [pc |-> "push", fileIds |-> op.fileIds] ELSE IdleOp

\* the caller after executeWithOptimisticUI returned: if (success && choice.push)
AfterOperation(op, success) ==
    IF success /\ op.push THEN [pc |-> "push", fileIds |-> op.fileIds] ELSE IdleOp

\* await pushCurrentBranch() resolves
PushResolve(o, pushed) ==
    /\ ops[o].pc = "push"
    /\ ops' = [ops EXCEPT ![o] = IdleOp]
    /\ last' = [op |-> IF pushed THEN "commit.pushed" ELSE "commit.pushFailed",
                ids |-> ops[o].fileIds]
    /\ events' = IF pushed THEN <<<<"showInformationMessage">>>> ELSE <<>>
    /\ UNCHANGED <<changelists, unversionedFiles, unversionedFilesExpanded, nextId,
                   skipNext, refreshes, moves>>

\* executeStashFlow up to its prompt: the selection is read here
StashFlow(o) ==
    /\ ops[o].pc = "idle"
    /\ \A n \in OpIds : n < o => ops[n].pc # "idle"
    /\ SelectedIds # {}
    /\ ops' = [ops EXCEPT ![o] = [pc |-> "stash.prompt", fileIds |-> SelectedIds]]
    /\ last' = Did("stash.prompt")
    /\ events' = <<>>
    /\ UNCHANGED <<changelists, unversionedFiles, unversionedFilesExpanded, nextId,
                   skipNext, refreshes, moves>>

\* the message box is dismissed
StashCancel(o) ==
    /\ ops[o].pc = "stash.prompt"
    /\ ops' = [ops EXCEPT ![o] = IdleOp]
    /\ last' = Did("stash.cancelled")
    /\ events' = <<>>
    /\ UNCHANGED <<changelists, unversionedFiles, unversionedFilesExpanded, nextId,
                   skipNext, refreshes, moves>>

\* a stash flow that removes the files before awaiting stashFiles
StashMessageOptimistic(o) ==
    /\ ops[o].pc = "stash.prompt"
    /\ changelists' = keptChangelists(changelists, ops[o].fileIds)
    /\ unversionedFiles' = keptUnversioned(unversionedFiles, ops[o].fileIds)
    /\ ops' = [ops EXCEPT ![o] = [pc |-> "stashFiles", fileIds |-> ops[o].fileIds]]
    /\ last' = [op |-> "stash.start", ids |-> ops[o].fileIds]
    /\ events' = <<Fire>>
    /\ UNCHANGED <<unversionedFilesExpanded, nextId, skipNext, refreshes, moves>>

\* a message is entered: stashFiles is awaited, the store is not touched
StashMessage(o) ==
    /\ ops[o].pc = "stash.prompt"
    /\ ops' = [ops EXCEPT ![o] = [pc |-> "stashFiles", fileIds |-> ops[o].fileIds]]
    /\ last' = [op |-> "stash.start", ids |-> ops[o].fileIds]
    /\ events' = <<>>
    /\ UNCHANGED <<changelists, unversionedFiles, unversionedFilesExpanded, nextId,
                   skipNext, refreshes, moves>>

\* await stashFiles() resolves: store.refresh() (not awaited) after success,
\* an error message otherwise
StashResolve(o, success, r) ==
    /\ ops[o].pc = "stashFiles"
    /\ ops' = [ops EXCEPT ![o] = IdleOp]
    /\ IF success
       THEN /\ refreshes[r].pc = "idle"
            /\ refreshes' = [refreshes EXCEPT ![r].pc = "getStatus", ![r].after = Running]
            /\ events' = <<<<"showInformationMessage">>, <<"refresh">>>>
       ELSE /\ r = 1
            /\ refreshes' = refreshes
            /\ events' = <<<<"showErrorMessage">>>>
    /\ last' = [op |-> IF success THEN "stash.success" ELSE "stash.failure",
                ids |-> ops[o].fileIds]
    /\ UNCHANGED <<changelists, unversionedFiles, unversionedFilesExpanded, nextId,
                   skipNext, moves>>

\* the failure branch calling onFailure before restoreFiles
OperationResolveSwapped(o, success) ==
    /\ ops[o].pc = "operation"
    /\ IF success
       THEN /\ UNCHANGED <<changelists, unversionedFiles>>
            /\ events' = <<<<"onSuccess">>, Return(success)>>
       ELSE /\ changelists' = restoredChangelists(changelists, ops[o].snapshot)
            /\ unversionedFiles' = restoredUnversioned(unversionedFiles, ops[o].snapshot)
            /\ events' = <<<<"onFailure">>, Fire, Return(success)>>
    /\ ops' = [OthersDirty(o) EXCEPT ![o] = AfterOperation(ops[o], success)]
    /\ last' = [op |-> IF success THEN "optimistic.success"
                        ELSE IF ops[o].dirty THEN "optimistic.failure.interleaved"
                        ELSE "optimistic.failure",
                ids |-> RemovedIds(ops[o].snapshot)]
    /\ UNCHANGED <<unversionedFilesExpanded, nextId, skipNext, refreshes, moves>>

\* a runner that clears the skip flag once the operation has settled
OperationResolveDisarm(o, success) ==
    /\ ops[o].pc = "operation"
    /\ IF success
       THEN /\ UNCHANGED <<changelists, unversionedFiles>>
            /\ events' = <<<<"onSuccess">>, Return(success)>>
       ELSE /\ changelists' = restoredChangelists(changelists, ops[o].snapshot)
            /\ unversionedFiles' = restoredUnversioned(unversionedFiles, ops[o].snapshot)
            /\ events' = <<Fire, <<"onFailure">>, Return(success)>>
    /\ ops' = [OthersDirty(o) EXCEPT ![o] = AfterOperation(ops[o], success)]
    /\ last' = [op |-> IF success THEN "optimistic.success"
                        ELSE IF ops[o].dirty THEN "optimistic.failure.interleaved"
                        ELSE "optimistic.failure",
                ids |-> RemovedIds(ops[o].snapshot)]
    /\ skipNext' = FALSE
    /\ UNCHANGED <<unversionedFilesExpanded, nextId, refreshes, moves>>

\* await params.operation() resolves to success
OperationResolve(o, success) ==
    /\ ops[o].pc = "operation"
    /\ IF success
       THEN /\ UNCHANGED <<changelists, unversionedFiles>>
            /\ events' = <<<<"onSuccess">>, Return(success)>>
       ELSE /\ changelists' = restoredChangelists(changelists, ops[o].snapshot)
            /\ unversionedFiles' = restoredUnversioned(unversionedFiles, ops[o].snapshot)
            /\ events' = <<Fire, <<"onFailure">>, Return(success)>>
    /\ ops' = [OthersDirty(o) EXCEPT ![o] = AfterOperation(ops[o], success)]
    /\ last' = [op |-> IF success THEN "optimistic.success"
                        ELSE IF ops[o].dirty THEN "optimistic.failure.interleaved"
                        ELSE "optimistic.failure",
                ids |-> RemovedIds(ops[o].snapshot)]
    /\ UNCHANGED <<unversionedFilesExpanded, nextId, skipNext, refreshes, moves>>

\* a runner that catches the rejection and restores the files
OperationRejectRestoring(o) ==
    /\ ops[o].pc = "operation"
    /\ changelists' = restoredChangelists(changelists, ops[o].snapshot)
    /\ unversionedFiles' = restoredUnversioned(unversionedFiles, ops[o].snapshot)
    /\ ops' = [OthersDirty(o) EXCEPT ![o] = IdleOp]
    /\ last' = [op |-> "optimistic.reject", ids |-> RemovedIds(ops[o].snapshot)]
    /\ events' = <<Fire, <<"onFailure">>>>
    /\ UNCHANGED <<unversionedFilesExpanded, nextId, skipNext, refreshes, moves>>

\* await params.operation() rejects: nothing after the await runs, the
\* rejection reaches the caller
OperationReject(o) ==
    /\ ops[o].pc = "operation"
    /\ ops' = [ops EXCEPT ![o] = IdleOp]
    /\ last' = [op |-> "optimistic.reject", ids |-> RemovedIds(ops[o].snapshot)]
    /\ events' = <<<<"throw">>>>
    /\ UNCHANGED <<changelists, unversionedFiles, unversionedFilesExpanded, nextId,
                   skipNext, refreshes, moves>>

\* the uri a watcher event carries: onDidDelete passes none
Paths == {"src/a.ts", "app.log"}
Uris == Paths \cup {Undefined}

\* shouldSkipAutoStage on these paths: "app.log" matches /\.log$/
shouldSkipAutoStage(path) == path = "app.log"

\* the handler goes on to isFileTracked(), otherwise straight to store.refresh()
AsksTracked(uri, autoStageEnabled) ==
    uri # Undefined /\ autoStageEnabled /\ ~shouldSkipAutoStage(uri)

\* a handler that leaves the skip flag set
FileSystemEventSticky(r, uri, autoStageEnabled) ==
    IF skipNext
    THEN /\ last' = Did("fsEvent.skipped")
         /\ events' = <<>>
         /\ UNCHANGED <<changelists, unversionedFiles, unversionedFilesExpanded, nextId,
                        skipNext, refreshes, moves, ops>>
    ELSE /\ refreshes[r].pc = "idle"
         /\ refreshes' = [refreshes EXCEPT
                             ![r].pc = IF AsksTracked(uri, autoStageEnabled)
                                       THEN "isFileTracked" ELSE "getStatus",
                             ![r].after = Running]
         /\ last' = Did(IF AsksTracked(uri, autoStageEnabled)
                         THEN "fsEvent.isFileTracked" ELSE "fsEvent.refresh")
         /\ events' = IF AsksTracked(uri, autoStageEnabled)
                      THEN <<<<"isFileTracked", uri>>>> ELSE <<<<"refresh">>>>
         /\ UNCHANGED <<changelists, unversionedFiles, unversionedFilesExpanded, nextId,
                        skipNext, moves, ops>>

\* handleFileSystemEvent up to its first await: swallowed by the skip flag, or
\* on its way to isFileTracked() or to store.refresh()
FileSystemEvent(r, uri, autoStageEnabled) ==
    IF skipNext
    THEN /\ skipNext' = FALSE
         /\ last' = Did("fsEvent.skipped")
         /\ events' = <<>>
         /\ UNCHANGED <<changelists, unversionedFiles, unversionedFilesExpanded, nextId,
                        refreshes, moves, ops>>
    ELSE /\ refreshes[r].pc = "idle"
         /\ refreshes' = [refreshes EXCEPT
                             ![r].pc = IF AsksTracked(uri, autoStageEnabled)
                                       THEN "isFileTracked" ELSE "getStatus",
                             ![r].after = Running]
         /\ last' = Did(IF AsksTracked(uri, autoStageEnabled)
                         THEN "fsEvent.isFileTracked" ELSE "fsEvent.refresh")
         /\ events' = IF AsksTracked(uri, autoStageEnabled)
                      THEN <<<<"isFileTracked", uri>>>> ELSE <<<<"refresh">>>>
         /\ UNCHANGED <<changelists, unversionedFiles, unversionedFilesExpanded, nextId,
                        skipNext, moves, ops>>

\* await isFileTracked() resolves
IsFileTrackedResolve(r, isTracked) ==
    /\ refreshes[r].pc = "isFileTracked"
    /\ refreshes' = [refreshes EXCEPT
                        ![r].pc = IF isTracked THEN "stageFile" ELSE "getStatus"]
    /\ last' = Did(IF isTracked THEN "fsEvent.stageFile" ELSE "fsEvent.notTracked.refresh")
    /\ events' = IF isTracked THEN <<<<"stageFile">>>> ELSE <<<<"refresh">>>>
    /\ UNCHANGED <<changelists, unversionedFiles, unversionedFilesExpanded, nextId,
                   skipNext, moves, ops>>

\* a handler that gives up when stageFile() throws
StageFileSettleAbort(r, ok) ==
    /\ refreshes[r].pc = "stageFile"
    /\ refreshes' = IF ok THEN [refreshes EXCEPT ![r].pc = "getStatus"]
                    ELSE Finish(r, FALSE)
    /\ last' = Did(IF ok THEN "fsEvent.staged.refresh" ELSE "fsEvent.stageFailed.refresh")
    /\ events' = IF ok THEN <<<<"refresh">>>> ELSE <<>>
    /\ UNCHANGED <<changelists, unversionedFiles, unversionedFilesExpanded, nextId,
                   skipNext, moves, ops>>

\* await stageFile() resolves or throws: the catch logs, then store.refresh()
StageFileSettle(r, ok) ==
    /\ refreshes[r].pc = "stageFile"
    /\ refreshes' = [refreshes EXCEPT ![r].pc = "getStatus"]
    /\ last' = Did(IF ok THEN "fsEvent.staged.refresh" ELSE "fsEvent.stageFailed.refresh")
    /\ events' = <<<<"refresh">>>>
    /\ UNCHANGED <<changelists, unversionedFiles, unversionedFilesExpanded, nextId,
                   skipNext, moves, ops>>

SelectionArgs == {"true", "false", Undefined}

RefreshSteps ==
    \/ \E r \in RefreshIds : RefreshCall(r)
    \/ \E r \in RefreshIds, tracked \in SUBSET FileIds : GetStatusResolve(r, tracked)
    \/ \E r \in RefreshIds : RefreshFail(r)
    \/ \E r \in RefreshIds, untracked \in SUBSET FileIds : RefreshReconcile(r, untracked)

\* refresh() calls that may overlap
OverlapSteps ==
    \/ \E r \in OverlapIds : RefreshCall(r)
    \/ \E r \in OverlapIds, tracked \in SUBSET FileIds : GetStatusResolve(r, tracked)
    \/ \E r \in OverlapIds : RefreshFail(r)
    \/ \E r \in OverlapIds, untracked \in SUBSET FileIds : RefreshReconcile(r, untracked)

ChangelistSteps ==
    \/ \E value \in InputValues : CreateChangelistCommand(value)
    \/ \E id \in TargetIds : DeleteChangelist(id)
    \/ \E id \in TargetIds, name \in Names : RenameChangelist(id, name)
    \/ \E s \in TargetIds, t \in TargetIds : MoveChangelistFiles(s, t)

MoveSteps ==
    \/ \E f \in FileIds, t \in TargetIds : MoveFileToChangelist(f, t)
    \/ \E m \in MoveIds : AddFileToGitResolve(m)
    \/ \E m \in MoveIds : AddFileToGitReject(m)

SelectionSteps ==
    \/ \E f \in FileIds, arg \in SelectionArgs : ToggleFileSelection(f, arg)
    \/ \E id \in TargetIds, b \in BOOLEAN : ToggleChangelistSelection(id, b)
    \/ \E b \in BOOLEAN : ToggleUnversionedSelection(b)
    \/ \E b \in BOOLEAN : SetEverySelection(b)

ExpandSteps ==
    \/ CollapseAll
    \/ \E b \in BOOLEAN : SetUnversionedExpanded(b)
    \/ \E id \in TargetIds, b \in BOOLEAN : SetChangelistExpanded(id, b)

OptimisticSteps ==
    \/ \E o \in OpIds, S \in SUBSET FileIds : OptimisticStart(o, S)
    \/ \E o \in OpIds, b \in BOOLEAN : OperationResolve(o, b)
    \/ \E o \in OpIds : OperationReject(o)

QuerySteps == \E q \in Queries : Query(q)

CommitSteps ==
    \/ \E o \in OpIds : CommitFlow(o)
    \/ \E o \in OpIds : CommitCancel(o)
    \/ \E o \in OpIds, push \in BOOLEAN : CommitChoose(o, push)
    \/ \E o \in OpIds, pushed \in BOOLEAN : PushResolve(o, pushed)

StashSteps ==
    \/ \E o \in OpIds : StashFlow(o)
    \/ \E o \in OpIds : StashCancel(o)
    \/ \E o \in OpIds : StashMessage(o)
    \/ \E o \in OpIds, success \in BOOLEAN, r \in RefreshIds : StashResolve(o, success, r)

\* watcher events with the auto-stage setting switched off
WatcherSteps == \E r \in RefreshIds, uri \in Uris : FileSystemEvent(r, uri, FALSE)

\* watcher events under either setting, and the awaits of the handler
AutoStageSteps ==
    \/ \E r \in RefreshIds, uri \in Uris, autoStageEnabled \in BOOLEAN :
          FileSystemEvent(r, uri, autoStageEnabled)
    \/ \E r \in RefreshIds, isTracked \in BOOLEAN : IsFileTrackedResolve(r, isTracked)
    \/ \E r \in RefreshIds, ok \in BOOLEAN : StageFileSettle(r, ok)

\* organising changelists while refreshes run
Next ==
    \/ RefreshSteps
    \/ ChangelistSteps
    \/ \E f \in FileIds : ToggleFileSelection(f, Undefined)

Spec == Init /\ [][Next]_vars

\* selecting, expanding and collapsing while refreshes run
NextSelection ==
    \/ RefreshSteps
    \/ SelectionSteps
    \/ ExpandSteps
    \/ QuerySteps
    \/ CreateChangelist("Feature X")
    \/ \E s \in TargetIds, t \in TargetIds : MoveChangelistFiles(s, t)

SpecSelection == Init /\ [][NextSelection]_vars

\* moving files while refreshes run and changelists come and go
NextMove ==
    \/ RefreshSteps
    \/ MoveSteps
    \/ CreateChangelist("Feature X")
    \/ \E id \in TargetIds : DeleteChangelist(id)
    \/ \E f \in FileIds : ToggleFileSelection(f, Undefined)

SpecMove == Init /\ [][NextMove]_vars

\* optimistic operations while the watcher and refreshes run
NextOptimistic ==
    \/ RefreshSteps
    \/ WatcherSteps
    \/ OptimisticSteps
    \/ CreateChangelist("Feature X")
    \/ \E s \in TargetIds, t \in TargetIds : MoveChangelistFiles(s, t)
    \/ \E f \in FileIds : ToggleFileSelection(f, Undefined)

SpecOptimistic == Init /\ [][NextOptimistic]_vars

\* optimistic operations while changelists are created, filled and deleted
NextRestore ==
    \/ RefreshSteps
    \/ OptimisticSteps
    \/ CreateChangelist("Feature X")
    \/ \E s \in TargetIds, t \in TargetIds : MoveChangelistFiles(s, t)
    \/ \E id \in TargetIds : DeleteChangelist(id)

SpecRestore == Init /\ [][NextRestore]_vars

\* the commit, revert and stash commands on selected files
NextCommit ==
    \/ RefreshSteps
    \/ CommitSteps
    \/ StashSteps
    \/ OptimisticSteps
    \/ \E f \in FileIds : ToggleFileSelection(f, Undefined)

SpecCommit == Init /\ [][NextCommit]_vars

\* the watcher with auto-staging while optimistic operations set the skip
\* flag; an await of the handler that is pending does settle
NextWatcher ==
    \/ RefreshSteps
    \/ AutoStageSteps
    \/ OptimisticSteps

SpecWatcher ==
    /\ Init
    /\ [][NextWatcher]_vars
    /\ \A r \in RefreshIds :
          /\ WF_vars(\E isTracked \in BOOLEAN : IsFileTrackedResolve(r, isTracked))
          /\ WF_vars(\E ok \in BOOLEAN : StageFileSettle(r, ok))

\* overlapping refreshes while files are selected and regrouped
NextOverlap ==
    \/ OverlapSteps
    \/ CreateChangelist("Feature X")
    \/ \E s \in TargetIds, t \in TargetIds : MoveChangelistFiles(s, t)
    \/ \E f \in FileIds : ToggleFileSelection(f, Undefined)

SpecOverlap == Init /\ [][NextOverlap]_vars

\* ------------------------------------------------------------- claims
Holds(changelist, id) == Copies(changelist.files, id) > 0

\* C1: a refresh keeps every reported tracked file in the changelist that held
\* it immediately before the reconciliation, and in that changelist only.
C1_RefreshKeepsAssignment ==
    [][\A r \in RefreshIds, untracked \in SUBSET FileIds :
          RefreshReconcile(r, untracked) =>
             \A f \in refreshes[r].gitFiles : \A i \in DOMAIN changelists :
                Holds(changelists[i], f) =>
                   /\ CopiesInStore(changelists', unversionedFiles', f) = 1
                   /\ \E j \in DOMAIN changelists' :
                         /\ changelists'[j].id = changelists[i].id
                         /\ Holds(changelists'[j], f)]_vars

\* C2: a refresh keeps the isSelected value of every file id that was in a
\* changelist or in the unversioned bucket before it and is reported again.
SelectionsOf(cls, unv, id) ==
    {f.isSelected : f \in {g \in Range(getAllFiles(cls, unv)) : g.id = id}}

C2_RefreshKeepsSelection ==
    [][\A r \in RefreshIds, untracked \in SUBSET FileIds :
          RefreshReconcile(r, untracked) =>
             \A f \in refreshes[r].gitFiles \cup untracked :
                SelectionsOf(changelists, unversionedFiles, f) # {} =>
                   SelectionsOf(changelists', unversionedFiles', f)
                      = SelectionsOf(changelists, unversionedFiles, f)]_vars

\* C3: every file with a status other than Untracked is in exactly one
\* changelist and nowhere else; every Untracked file is in the unversioned
\* bucket only.
C3_OneContainerPerFile ==
    \A f \in Range(getAllFiles(changelists, unversionedFiles)) :
       IF f.status # Untracked
       THEN /\ CopiesInLists(changelists, 1, f.id) = 1
            /\ Copies(unversionedFiles, f.id) = 0
       ELSE /\ CopiesInLists(changelists, 1, f.id) = 0
            /\ Copies(unversionedFiles, f.id) = 1

\* C5: the files an optimistic operation removed stay absent from every
\* container until the operation resolves; afterwards each is present exactly
\* once if the operation returned false and absent if it returned true.
C5_NoFlicker ==
    /\ [](\A o \in OpIds : ops[o].pc = "operation" =>
             \A f \in RemovedIds(ops[o].snapshot) :
                CopiesInStore(changelists, unversionedFiles, f) = 0)
    /\ [][\A o \in OpIds, success \in BOOLEAN :
             OperationResolve(o, success) =>
                \A f \in RemovedIds(ops[o].snapshot) :
                   CopiesInStore(changelists', unversionedFiles', f)
                      = IF success THEN 0 ELSE 1]_vars

\* C4: exactly one changelist is the default one, it keeps the default id, and
\* deleteChangelist(default id) changes nothing.
OneDefault ==
    /\ Cardinality({i \in DOMAIN changelists : changelists[i].isDefault}) = 1
    /\ changelists[DefaultIndex(changelists)].id = DefaultChangelistId

C4_ExactlyOneDefault ==
    /\ []OneDefault
    /\ [][DeleteChangelist(DefaultChangelistId) =>
             /\ changelists' = changelists
             /\ unversionedFiles' = unversionedFiles
             /\ unversionedFilesExpanded' = unversionedFilesExpanded]_vars

C4_Witness ==
    /\ last.op = "deleteChangelist.isDefault"
    /\ Len(changelists) > 1
    /\ Len(changelists[DefaultIndex(changelists)].files) > 0

\* two sequences hold the same FileItems, each as often (order may differ)
SameFiles(s, t) ==
    \A x \in Range(s) \cup Range(t) :
       Len(SelectSeq(s, LAMBDA f : f = x)) = Len(SelectSeq(t, LAMBDA f : f = x))

\* the store holds what it held before the optimistic call, up to the order
\* within a container
RestoredTo(preLists, preBucket) ==
    /\ Len(changelists') = Len(preLists)
    /\ \A i \in DOMAIN changelists' :
          /\ SameFiles(changelists'[i].files, preLists[i].files)
          /\ [changelists'[i] EXCEPT !.files = <<>>] = [preLists[i] EXCEPT !.files = <<>>]
    /\ SameFiles(unversionedFiles', preBucket)

\* C6: when the operation resolves to false and no other store call ran in
\* between, every removed file is back in its container with its isSelected
\* value, the store equals its pre-call state up to order, onFailure is called
\* once and onSuccess never.
C6_FailureRestores ==
    [][\A o \in OpIds :
          /\ \A S \in SUBSET FileIds :
                OptimisticStart(o, S) => events' = <<<<"skipNextRefresh">>, Fire>>
          /\ OperationResolve(o, FALSE) /\ ~ops[o].dirty =>
                /\ RestoredTo(ops[o].preLists, ops[o].preBucket)
                /\ events' = <<Fire, <<"onFailure">>, Return(FALSE)>>]_vars

C6_Witness ==
    /\ last.op = "optimistic.failure"
    /\ last.ids = FileIds
    /\ events = <<Fire, <<"onFailure">>, Return(FALSE)>>
    /\ \E i \in DOMAIN changelists :
          /\ ~changelists[i].isDefault
          /\ \E k \in DOMAIN changelists[i].files :
                /\ changelists[i].files[k].isSelected
                /\ changelists[i].files[k].id \in last.ids

\* the files a container held before the call, by snapshot key
ContainerFiles(cls, unv, key) ==
    IF key = UnversionedSnapshotKey THEN unv
    ELSE IF HasCl(cls, key) THEN cls[ClIndex(cls, key)].files
    ELSE <<>>

\* C7: removeCommittedFiles(S) immediately followed by restoreFiles(snapshot)
\* leaves every container with the same files as before, and the snapshot has
\* an entry exactly for the containers that lost a file.
C7_RemoveRestoreRoundTrip ==
    [][\A o \in OpIds :
          /\ \A S \in SUBSET FileIds :
                OptimisticStart(o, S) =>
                   LET snap == ops'[o].snapshot
                       keys == {snap[e].key : e \in DOMAIN snap}
                   IN /\ Cardinality(keys) = Len(snap)
                      /\ \A key \in ExistingIds \cup {UnversionedSnapshotKey} :
                            key \in keys <=>
                               Len(ContainerFiles(changelists', unversionedFiles', key))
                                  < Len(ContainerFiles(changelists, unversionedFiles, key))
                      /\ keys \subseteq ExistingIds \cup {UnversionedSnapshotKey}
          /\ OperationResolve(o, FALSE) /\ ~ops[o].dirty =>
                \A key \in ExistingIds \cup {UnversionedSnapshotKey} :
                   SameFiles(ContainerFiles(changelists', unversionedFiles', key),
                             ContainerFiles(ops[o].preLists, ops[o].preBucket, key))]_vars

C7_Witness ==
    /\ last.op = "optimistic.failure"
    /\ last.ids = FileIds
    /\ \E f \in last.ids : Copies(unversionedFiles, f) = 1
    /\ \E f \in last.ids : CopiesInLists(changelists, 1, f) = 1

\* C8: a move that awaited addFileToGit leaves the moved file in exactly one
\* container, whatever addFileToGit answered and whatever ran meanwhile.
C8_MoveKeepsOneCopy ==
    [][\A m \in MoveIds :
          AddFileToGitResolve(m) \/ AddFileToGitReject(m) =>
             CopiesInStore(changelists', unversionedFiles', moves[m].file.id) = 1]_vars

\* C9: when addFileToGit fails the file is back in the unversioned bucket as
\* it was (Untracked, no changelistId, same isSelected), no changelist changes,
\* the target is not expanded and no auto-expand event fires.
C9_AddFailurePutsBack ==
    [][/\ \A f \in FileIds, t \in TargetIds :
             MoveFileToChangelist(f, t) /\ last'.op = "moveFileToChangelist.awaitAdd" =>
                /\ changelists' = changelists
                /\ events' = <<>>
                /\ \E m \in MoveIds :
                      /\ moves[m].pc = "idle"
                      /\ moves'[m].pc = "addFileToGit"
                      /\ moves'[m].file = unversionedFiles[FileIndex(unversionedFiles, f)]
       /\ \A m \in MoveIds :
             AddFileToGitReject(m) =>
                /\ changelists' = changelists
                /\ Copies(unversionedFiles', moves[m].file.id)
                      = Copies(unversionedFiles, moves[m].file.id) + 1
                /\ moves[m].file \in Range(unversionedFiles')
                /\ moves[m].file.status = Untracked
                /\ moves[m].file.changelistId = Undefined
                /\ SameFiles(unversionedFiles, SubSeq(unversionedFiles', 1, Len(unversionedFiles)))
                /\ events' = <<Fire>>]_vars

C9_Witness ==
    /\ last.op = "moveFileToChangelist.addFailed"
    /\ \E k \in DOMAIN unversionedFiles :
          /\ unversionedFiles[k].isSelected
          /\ unversionedFiles[k].status = Untracked
          /\ k = Len(unversionedFiles)
    /\ \E i \in DOMAIN changelists : ~changelists[i].isDefault

\* C10: deleteChangelist(id) on an existing non-default changelist removes
\* exactly that changelist and appends its files to the default one; the files
\* held by the store, every other changelist and the unversioned bucket are
\* unchanged.
C10_DeleteTransfersFiles ==
    [][\A id \in TargetIds :
          (/\ DeleteChangelist(id)
           /\ HasCl(changelists, id)
           /\ ~changelists[ClIndex(changelists, id)].isDefault) =>
             LET i == ClIndex(changelists, id)
                 d == DefaultIndex(changelists)
                 expected == [j \in DOMAIN changelists |->
                                 IF j = d
                                 THEN [changelists[d] EXCEPT
                                          !.files = changelists[d].files \o changelists[i].files]
                                 ELSE changelists[j]]
             IN /\ changelists' = Splice(expected, i)
                /\ ~HasCl(changelists', id)
                /\ SameFiles(getAllFiles(changelists', unversionedFiles'),
                             getAllFiles(changelists, unversionedFiles))
                /\ unversionedFiles' = unversionedFiles]_vars

C10_Witness ==
    /\ last.op = "deleteChangelist.deleted"
    /\ \E f \in Range(changelists[DefaultIndex(changelists)].files) :
          f.changelistId # DefaultChangelistId
    /\ \E f \in Range(changelists[DefaultIndex(changelists)].files) :
          f.changelistId = DefaultChangelistId

\* changelist names are pairwise distinct
NamesDistinct ==
    \A i, j \in DOMAIN changelists :
       i # j => changelists[i].name # changelists[j].name

NameUsed(name) == \E i \in DOMAIN changelists : changelists[i].name = name

\* C11: creating a changelist under a name that is already used is rejected
\* before the store is touched: the changelists, their number and the events
\* are unchanged, and names are pairwise distinct in every reachable state.
C11_DuplicateNameRejected ==
    /\ []NamesDistinct
    /\ [][\A value \in InputValues :
             CreateChangelistCommand(value) /\ NameUsed(Trim(value)) =>
                /\ changelists' = changelists
                /\ unversionedFiles' = unversionedFiles
                /\ nextId' = nextId
                /\ events' = <<>>]_vars

C11_Witness ==
    /\ last.op = "Changelist with this name already exists"
    /\ Len(changelists) = 2
    /\ \E i \in DOMAIN changelists : changelists[i].name = "Bugfix"

\* the number of general change notifications in a list of events
Fired(evs) == Len(SelectSeq(evs, LAMBDA e : e = Fire))

\* C12: a refresh whose getStatus() or getUnversionedFiles() fails leaves every
\* changelist (files, selection, expand flag), the unversioned bucket and its
\* expand flag as they were, and the call completes normally.
C12_FailedRefreshKeepsState ==
    [][\A r \in RefreshIds :
          RefreshFail(r) =>
             /\ changelists' = changelists
             /\ unversionedFiles' = unversionedFiles
             /\ unversionedFilesExpanded' = unversionedFilesExpanded
             /\ refreshes'[r].pc = "idle"
             /\ Fired(events') = 1]_vars

C12_Witness ==
    /\ last.op = "refresh.failed.getUnversioned"
    /\ Len(unversionedFiles) > 0
    /\ \E i \in DOMAIN changelists :
          /\ ~changelists[i].isDefault
          /\ changelists[i].isExpanded
          /\ \E k \in DOMAIN changelists[i].files : changelists[i].files[k].isSelected

\* C13: a call on an id that is not in the store (moveFileToChangelist on an
\* unknown file; moveChangelistFiles, deleteChangelist, renameChangelist on an
\* unknown changelist) leaves the containers unchanged and still fires one
\* change notification.
C13_NotFoundStillFires ==
    [][/\ \A f \in FileIds, t \in TargetIds :
             (/\ MoveFileToChangelist(f, t)
              /\ ~SelectionHas(changelists, unversionedFiles, f)) =>
                /\ changelists' = changelists
                /\ unversionedFiles' = unversionedFiles
                /\ Fired(events') = 1
       /\ \A a \in TargetIds, b \in TargetIds, name \in Names :
             (/\ \/ DeleteChangelist(a)
                 \/ RenameChangelist(a, name)
                 \/ MoveChangelistFiles(a, b)
                 \/ MoveChangelistFiles(b, a)
              /\ ~HasCl(changelists, a)) =>
                /\ changelists' = changelists
                /\ unversionedFiles' = unversionedFiles
                /\ Fired(events') = 1]_vars

\* C14: renameChangelist on an existing id throws and changes nothing, without
\* a notification, when another changelist has the new name; otherwise only the
\* name of that changelist changes and one notification fires.  Renames keep
\* names pairwise distinct.
C14_RenameConflict ==
    [][\A id \in ExistingIds, newName \in Names :
          RenameChangelist(id, newName) =>
             IF \E i \in DOMAIN changelists :
                   changelists[i].name = newName /\ changelists[i].id # id
             THEN /\ last'.op = "renameChangelist.conflict"
                  /\ changelists' = changelists
                  /\ unversionedFiles' = unversionedFiles
                  /\ unversionedFilesExpanded' = unversionedFilesExpanded
                  /\ events' = <<>>
             ELSE /\ last'.op = "renameChangelist.renamed"
                  /\ Len(changelists') = Len(changelists)
                  /\ \A i \in DOMAIN changelists :
                        IF changelists[i].id = id
                        THEN /\ changelists'[i].name = newName
                             /\ [changelists'[i] EXCEPT !.name = ""]
                                   = [changelists[i] EXCEPT !.name = ""]
                        ELSE changelists'[i] = changelists[i]
                  /\ unversionedFiles' = unversionedFiles
                  /\ unversionedFilesExpanded' = unversionedFilesExpanded
                  /\ events' = <<Fire>>
                  /\ NamesDistinct => NamesDistinct']_vars

C14_Witness ==
    /\ last.op = "renameChangelist.conflict"
    /\ Len(changelists) = 2
    /\ changelists[DefaultIndex(changelists)].name # DefaultChangelistName
    /\ \E i \in DOMAIN changelists : Len(changelists[i].files) > 0

\* C15: the runner calls skipNextRefresh, then removeCommittedFiles, then
\* starts the operation; when the operation has resolved it calls onSuccess
\* alone (true: nothing restored) or restoreFiles and then onFailure (false);
\* one callback runs, once, and the operation's result is returned.
C15_OptimisticOrder ==
    [][\A o \in OpIds :
          /\ \A S \in SUBSET FileIds :
                OptimisticStart(o, S) =>
                   /\ ops[o].pc = "idle"
                   /\ events' = <<<<"skipNextRefresh">>, Fire>>
                   /\ skipNext'
                   /\ ops'[o].pc = "operation"
                   /\ \A f \in S : CopiesInStore(changelists', unversionedFiles', f) = 0
          /\ \A success \in BOOLEAN :
                OperationResolve(o, success) =>
                   /\ ops[o].pc = "operation"
                   /\ ops'[o].pc = "idle"
                   /\ IF success
                      THEN /\ events' = <<<<"onSuccess">>, Return(TRUE)>>
                           /\ changelists' = changelists
                           /\ unversionedFiles' = unversionedFiles
                      ELSE /\ events' = <<Fire, <<"onFailure">>, Return(FALSE)>>
                           /\ Len(getAllFiles(changelists', unversionedFiles'))
                                 = Len(getAllFiles(changelists, unversionedFiles))
                                   + SnapshotSize(ops[o].snapshot, 1)]_vars

C15_Witness ==
    /\ last.op = "optimistic.success"
    /\ last.ids = FileIds
    /\ events = <<<<"onSuccess">>, Return(TRUE)>>
    /\ ~skipNext

AllCollapsed(cls, expanded) ==
    /\ ~expanded
    /\ \A i \in DOMAIN cls : ~cls[i].isExpanded

\* C16: deselectAllFiles() leaves no file selected and a second call directly
\* after it changes nothing; likewise selectAllFiles() (every file selected)
\* and collapseAll() (everything collapsed).
C16_Idempotent ==
    [][/\ SetEverySelection(FALSE) =>
             /\ getSelectedFiles(changelists', unversionedFiles') = <<>>
             /\ last.op \in {"deselectAllFiles", "deselectAllFiles.again"} =>
                   /\ changelists' = changelists
                   /\ unversionedFiles' = unversionedFiles
                   /\ unversionedFilesExpanded' = unversionedFilesExpanded
       /\ SetEverySelection(TRUE) =>
             /\ getSelectedFiles(changelists', unversionedFiles')
                   = getAllFiles(changelists', unversionedFiles')
             /\ last.op \in {"selectAllFiles", "selectAllFiles.again"} =>
                   /\ changelists' = changelists
                   /\ unversionedFiles' = unversionedFiles
                   /\ unversionedFilesExpanded' = unversionedFilesExpanded
       /\ CollapseAll =>
             /\ AllCollapsed(changelists', unversionedFilesExpanded')
             /\ last.op \in {"collapseAll", "collapseAll.again"} =>
                   /\ changelists' = changelists
                   /\ unversionedFiles' = unversionedFiles
                   /\ unversionedFilesExpanded' = unversionedFilesExpanded]_vars

C16_Witness ==
    /\ last.op = "deselectAllFiles.again"
    /\ Len(unversionedFiles) > 0
    /\ \E i \in DOMAIN changelists :
          ~changelists[i].isDefault /\ Len(changelists[i].files) > 0

\* the files with status Added that the changelists hold
RECURSIVE AddedInLists(_, _)
AddedInLists(cls, i) ==
    IF i > Len(cls) THEN 0
    ELSE Len(SelectSeq(cls[i].files, LAMBDA f : f.status = Added)) + AddedInLists(cls, i + 1)

\* C17: the unversioned bucket holds only Untracked files without changelistId,
\* the changelists hold no Untracked file, and an Untracked file gets into a
\* changelist only by a moveFileToChangelist whose addFileToGit succeeded, with
\* status Added.
C17_StatusMatchesContainer ==
    /\ [](/\ \A k \in DOMAIN unversionedFiles :
                /\ unversionedFiles[k].status = Untracked
                /\ unversionedFiles[k].changelistId = Undefined
          /\ \A i \in DOMAIN changelists : \A k \in DOMAIN changelists[i].files :
                changelists[i].files[k].status # Untracked)
    /\ [][/\ \A m \in MoveIds :
                AddFileToGitResolve(m) /\ HasCl(changelists, moves[m].target) =>
                   LET t == ClIndex(changelists, moves[m].target)
                   IN /\ moves[m].file.status = Untracked
                      /\ changelists'[t].files
                            = Append(changelists[t].files,
                                     [moves[m].file EXCEPT !.status = Added,
                                                           !.changelistId = moves[m].target])
          /\ AddedInLists(changelists', 1) > AddedInLists(changelists, 1) =>
                \E m \in MoveIds : AddFileToGitResolve(m)]_vars

C17_Witness ==
    /\ last.op = "moveFileToChangelist.added"
    /\ Len(unversionedFiles) > 0
    /\ \E i \in DOMAIN changelists :
          /\ ~changelists[i].isDefault
          /\ \E k \in DOMAIN changelists[i].files : changelists[i].files[k].status = Added

\* C18: a reported tracked file that no changelist held before the
\* reconciliation is put in the default changelist, once, with the default id
\* as changelistId; when the bucket did not hold it either it is unselected.
C18_NewFileToDefault ==
    [][\A r \in RefreshIds, untracked \in SUBSET FileIds :
          RefreshReconcile(r, untracked) =>
             \A f \in refreshes[r].gitFiles :
                CopiesInLists(changelists, 1, f) = 0 =>
                   LET files == changelists'[DefaultIndex(changelists')].files
                   IN /\ Copies(files, f) = 1
                      /\ CopiesInStore(changelists', unversionedFiles', f) = 1
                      /\ \A k \in DOMAIN files :
                            files[k].id = f =>
                               /\ files[k].changelistId = DefaultChangelistId
                               /\ files[k].status # Untracked
                               /\ Copies(unversionedFiles, f) = 0 => ~files[k].isSelected]_vars

C18_Witness ==
    /\ last.op = "refresh"
    /\ \E f \in last.ids :
          \E g \in Range(changelists[DefaultIndex(changelists)].files) :
             g.id = f /\ g.isSelected
    /\ \E f \in last.ids :
          \E g \in Range(changelists[DefaultIndex(changelists)].files) :
             g.id = f /\ ~g.isSelected
    /\ \E i \in DOMAIN changelists : ~changelists[i].isDefault

\* C19: every call of a store mutation fires the change notification exactly
\* once: nothing while the call is suspended at an await, one when it
\* completes.  refresh() fires one whether the query succeeded or failed, and
\* every exit of moveFileToChangelist fires one.  A refused call (deleting the
\* default changelist, a rename that throws) is not counted.
C19_OneNotificationPerCall ==
    [][/\ \A r \in RefreshIds, S \in SUBSET FileIds :
             /\ RefreshCall(r) \/ GetStatusResolve(r, S) => Fired(events') = 0
             /\ RefreshFail(r) \/ RefreshReconcile(r, S) => Fired(events') = 1
       /\ \A f \in FileIds, t \in TargetIds :
             MoveFileToChangelist(f, t) =>
                Fired(events') = IF last'.op = "moveFileToChangelist.awaitAdd" THEN 0 ELSE 1
       /\ \A m \in MoveIds :
             AddFileToGitResolve(m) \/ AddFileToGitReject(m) => Fired(events') = 1
       /\ \A a \in TargetIds, b \in TargetIds, name \in Names :
             (\/ CreateChangelist(name)
              \/ DeleteChangelist(a) /\ last'.op # "deleteChangelist.isDefault"
              \/ RenameChangelist(a, name) /\ last'.op # "renameChangelist.conflict"
              \/ MoveChangelistFiles(a, b)) => Fired(events') = 1
       /\ \A f \in FileIds, arg \in SelectionArgs, a \in TargetIds, b \in BOOLEAN :
             (\/ ToggleFileSelection(f, arg)
              \/ ToggleChangelistSelection(a, b)
              \/ ToggleUnversionedSelection(b)
              \/ SetEverySelection(b)
              \/ CollapseAll) => Fired(events') = 1
       /\ \A o \in OpIds, S \in SUBSET FileIds :
             /\ OptimisticStart(o, S) => Fired(events') = 1
             /\ OperationResolve(o, FALSE) => Fired(events') = 1]_vars

\* the ids a container holds, in order
Ids(files) == [k \in DOMAIN files |-> files[k].id]

SameMembership ==
    /\ Len(changelists') = Len(changelists)
    /\ \A i \in DOMAIN changelists :
          /\ changelists'[i].id = changelists[i].id
          /\ Ids(changelists'[i].files) = Ids(changelists[i].files)
    /\ Ids(unversionedFiles') = Ids(unversionedFiles)

\* C20: every call of toggleFileSelection, toggleChangelistSelection,
\* toggleUnversionedSelection, selectAllFiles, deselectAllFiles and collapseAll
\* fires exactly one change notification, also for an id that is not in the
\* store, and leaves every container with the same files.
C20_SelectionFiresOnce ==
    [][\A f \in FileIds, arg \in SelectionArgs, a \in TargetIds, b \in BOOLEAN :
          (\/ ToggleFileSelection(f, arg)
           \/ ToggleChangelistSelection(a, b)
           \/ ToggleUnversionedSelection(b)
           \/ SetEverySelection(b)
           \/ CollapseAll) =>
             /\ Fired(events') = 1
             /\ SameMembership]_vars

\* how often x occurs in a sequence
Occurs(files, x) == Len(SelectSeq(files, LAMBDA f : f = x))

RECURSIVE OccursInLists(_, _, _)
OccursInLists(cls, i, x) ==
    IF i > Len(cls) THEN 0 ELSE Occurs(cls[i].files, x) + OccursInLists(cls, i + 1, x)

\* C21: a getter changes nothing in the store and fires nothing;
\* getSelectedFiles returns exactly the selected files of all changelists and
\* of the unversioned bucket, getAllFiles exactly the files of all containers.
C21_QueriesArePure ==
    [][\A q \in Queries :
          Query(q) =>
             LET held == UNION {Range(changelists[i].files) : i \in DOMAIN changelists}
                            \cup Range(unversionedFiles)
                 result == events'[1][2]
             IN /\ changelists' = changelists
                /\ unversionedFiles' = unversionedFiles
                /\ unversionedFilesExpanded' = unversionedFilesExpanded
                /\ Fired(events') = 0
                /\ Len(events') = 1
                /\ q = "getSelectedFiles" =>
                      /\ \A x \in Range(result) : x.isSelected
                      /\ \A x \in held :
                            x.isSelected =>
                               Occurs(result, x) = OccursInLists(changelists, 1, x)
                                                   + Occurs(unversionedFiles, x)
                /\ q = "getAllFiles" =>
                      /\ Range(result) = held
                      /\ \A x \in held :
                            Occurs(result, x) = OccursInLists(changelists, 1, x)
                                                + Occurs(unversionedFiles, x)
                /\ q = "getChangelists" => result = changelists
                /\ q = "getUnversionedFiles" => result = unversionedFiles
                /\ q = "isUnversionedExpanded" => result = unversionedFilesExpanded]_vars

C21_Witness ==
    /\ last.op = "getSelectedFiles"
    /\ Len(events[1][2]) = 2
    /\ \E k \in DOMAIN unversionedFiles : unversionedFiles[k].isSelected
    /\ \E i \in DOMAIN changelists : \E k \in DOMAIN changelists[i].files :
          changelists[i].files[k].isSelected

\* the file id is in the list of changelist t and nowhere else, carries t as
\* changelistId, t is expanded, and auto-expand fired before the notification
MovedTo(id, t) ==
    /\ HasCl(changelists', t)
    /\ LET target == changelists'[ClIndex(changelists', t)]
       IN /\ Copies(target.files, id) = 1
          /\ \A k \in DOMAIN target.files :
                target.files[k].id = id => target.files[k].changelistId = t
          /\ target.isExpanded
    /\ CopiesInStore(changelists', unversionedFiles', id) = 1
    /\ events' = <<AutoExpand(t), Fire>>

\* C22: a moveFileToChangelist that found the file (in a changelist, or in
\* the bucket with addFileToGit succeeding) and the target leaves the file in
\* the target's list only, with the target's id as changelistId, the target
\* expanded, and the auto-expand event fired before the change notification.
C22_MoveLandsInTarget ==
    [][/\ \A f \in FileIds, t \in TargetIds :
             MoveFileToChangelist(f, t) /\ last'.op = "moveFileToChangelist.moved" =>
                MovedTo(f, t)
       /\ \A m \in MoveIds :
             AddFileToGitResolve(m) => MovedTo(moves[m].file.id, moves[m].target)]_vars

\* C23: a moveFileToChangelist on a file the store holds and a target that does
\* not exist leaves the file in no container, fires one change notification
\* and does not call addFileToGit.
C23_MissingTargetDetaches ==
    [][\A f \in FileIds, t \in TargetIds :
          (/\ MoveFileToChangelist(f, t)
           /\ SelectionHas(changelists, unversionedFiles, f)
           /\ ~HasCl(changelists, t)) =>
             /\ CopiesInStore(changelists', unversionedFiles', f) = 0
             /\ events' = <<Fire>>
             /\ moves' = moves]_vars

\* the files of a list as moveChangelistFiles leaves them in the target
Reassigned(files, t) == [k \in DOMAIN files |-> [files[k] EXCEPT !.changelistId = t]]

\* what moveChangelistFiles(s, t) does when both lists exist and differ
MovedAll(s, t) ==
    LET si == ClIndex(changelists, s)
        ti == ClIndex(changelists, t)
    IN /\ Len(changelists') = Len(changelists)
       /\ changelists'[si].files = <<>>
       /\ changelists'[ti].files
             = changelists[ti].files \o Reassigned(changelists[si].files, t)
       /\ changelists'[ti].isExpanded
       /\ \A f \in FileIds :
             CopiesInLists(changelists', 1, f) = CopiesInLists(changelists, 1, f)
       /\ \A i \in DOMAIN changelists :
             /\ i \notin {si, ti} => changelists'[i] = changelists[i]
             /\ [changelists'[i] EXCEPT !.files = <<>>, !.isExpanded = TRUE]
                   = [changelists[i] EXCEPT !.files = <<>>, !.isExpanded = TRUE]
             /\ i # ti => changelists'[i].isExpanded = changelists[i].isExpanded
       /\ unversionedFiles' = unversionedFiles
       /\ events' = <<Fire, AutoExpand(t)>>

NothingChanges ==
    /\ changelists' = changelists
    /\ unversionedFiles' = unversionedFiles
    /\ unversionedFilesExpanded' = unversionedFilesExpanded

\* C24 as stated: moveChangelistFiles with both ids present empties the source,
\* appends exactly its files to the target with the target's id as
\* changelistId, expands the target and fires the change notification, then
\* the auto-expand event; with an id missing nothing changes.
C24_MoveAllFiles ==
    [][\A s \in TargetIds, t \in TargetIds :
          MoveChangelistFiles(s, t) =>
             IF HasCl(changelists, s) /\ HasCl(changelists, t)
             THEN MovedAll(s, t)
             ELSE NothingChanges]_vars

\* C24 amended: as stated when the two ids differ; when source and target are
\* the same changelist it keeps its files (in order, changelistId set to its
\* id), is expanded and the two events fire.
C24_MoveAllFilesDistinct ==
    [][\A s \in TargetIds, t \in TargetIds :
          MoveChangelistFiles(s, t) =>
             IF ~(HasCl(changelists, s) /\ HasCl(changelists, t)) THEN NothingChanges
             ELSE IF s # t THEN MovedAll(s, t)
             ELSE LET i == ClIndex(changelists, s)
                  IN /\ changelists'
                           = [changelists EXCEPT
                                 ![i].files = Reassigned(changelists[i].files, t),
                                 ![i].isExpanded = TRUE]
                     /\ unversionedFiles' = unversionedFiles
                     /\ events' = <<Fire, AutoExpand(t)>>]_vars

C24_Witness ==
    /\ last.op = "moveChangelistFiles.moved"
    /\ last.ids # {}
    /\ events = <<Fire, AutoExpand(DefaultChangelistId)>>
    /\ \E f \in Range(changelists[DefaultIndex(changelists)].files) :
          f.id \notin last.ids

\* C25: createChangelist(name) appends one changelist with a fresh id, the
\* given name, no files, expanded and not default, changes nothing else, and
\* fires the change notification and then the created event with the new id.
C25_CreateAppendsOne ==
    [][\A name \in Names \cup {DefaultChangelistName} :
          CreateChangelist(name) =>
             LET new == changelists'[Len(changelists')]
             IN /\ Len(changelists') = Len(changelists) + 1
                /\ SubSeq(changelists', 1, Len(changelists)) = changelists
                /\ new.name = name
                /\ new.files = <<>>
                /\ new.isExpanded
                /\ ~new.isDefault
                /\ new.id \notin ExistingIds
                /\ unversionedFiles' = unversionedFiles
                /\ unversionedFilesExpanded' = unversionedFilesExpanded
                /\ events' = <<Fire, Created(new.id)>>]_vars

C25_Witness ==
    /\ last.op = "createChangelist"
    /\ Len(changelists) = 2
    /\ Len(changelists[1].files) > 0
    /\ Len(unversionedFiles) > 0
    /\ events = <<Fire, Created(changelists[2].id)>>

\* a changelist without its files
Frame(changelist) == [changelist EXCEPT !.files = <<>>]

\* C26: no step of refresh() changes the list of changelists, the id, name,
\* isDefault or isExpanded of any of them, or the expand flag of the
\* unversioned section, whether the backend query succeeds or fails.
C26_RefreshKeepsChangelists ==
    [][\A r \in RefreshIds, S \in SUBSET FileIds :
          (\/ RefreshCall(r)
           \/ GetStatusResolve(r, S)
           \/ RefreshFail(r)
           \/ RefreshReconcile(r, S)) =>
             /\ Len(changelists') = Len(changelists)
             /\ \A i \in DOMAIN changelists :
                   Frame(changelists'[i]) = Frame(changelists[i])
             /\ unversionedFilesExpanded' = unversionedFilesExpanded]_vars

C26_Witness ==
    /\ last.op = "refresh"
    /\ Len(changelists) = 2
    /\ \E i \in DOMAIN changelists :
          ~changelists[i].isExpanded /\ Len(changelists[i].files) > 0
    /\ \E i \in DOMAIN changelists :
          changelists[i].isExpanded /\ Len(changelists[i].files) = 0
    /\ changelists[DefaultIndex(changelists)].name # DefaultChangelistName

\* C30: the constructed store holds one changelist, the default one, empty and
\* collapsed, and an empty unversioned bucket; a backend query is in flight
\* only once refresh() has been called.
C30_ConstructedStore ==
    /\ [](last.op = "init" =>
             /\ Len(changelists) = 1
             /\ changelists[1].isDefault
             /\ changelists[1].files = <<>>
             /\ ~changelists[1].isExpanded
             /\ unversionedFiles = <<>>
             /\ \A r \in RefreshIds : refreshes[r].pc = "idle")
    /\ [][\A r \in RefreshIds :
             refreshes[r].pc = "idle" /\ refreshes'[r].pc # "idle" =>
                RefreshCall(r)]_vars

C30_Witness ==
    /\ last.op = "refresh.call"
    /\ changelists = initializeDefaultChangelist
    /\ unversionedFiles = <<>>
    /\ nextId = 1

\* the ids the changelists hold
IdsInLists(cls) == UNION {{f.id : f \in Range(cls[i].files)} : i \in DOMAIN cls}

\* C28: overlapping refresh() calls all run to their end, and the one whose
\* backend query resolves last decides the file lists: after its
\* reconciliation the changelists hold exactly the tracked files it fetched,
\* once each, and the bucket exactly the untracked files it fetched, also when
\* it was called first and a refresh called later has already completed.
C28_LastWriterWins ==
    [][\A r \in OverlapIds, untracked \in SUBSET FileIds :
          RefreshReconcile(r, untracked) =>
             /\ IdsInLists(changelists') = refreshes[r].gitFiles
             /\ \A f \in refreshes[r].gitFiles : CopiesInLists(changelists', 1, f) = 1
             /\ Ids(unversionedFiles') = SortedSeq(untracked)
             /\ \A q \in OverlapIds \ {r} :
                   /\ refreshes'[q].pc = refreshes[q].pc
                   /\ refreshes'[q].gitFiles = refreshes[q].gitFiles]_vars

C28_Witness ==
    /\ last.op = "refresh.overtaken"
    /\ Running = {}
    /\ IdsInLists(changelists) = {1}
    /\ Ids(unversionedFiles) = <<>>

\* C27: skipNextRefresh() sets the watcher's skip flag; the next filesystem
\* event (change, create or delete) is ignored, starting neither the
\* auto-stage calls nor store.refresh() and leaving the store alone; it clears
\* the flag, nothing else clears it, and an event that finds the flag clear is
\* handled.
C27_SkipFlagOneShot ==
    [][/\ \A o \in OpIds, S \in SUBSET FileIds : OptimisticStart(o, S) => skipNext'
       /\ \A r \in RefreshIds, uri \in Uris, autoStageEnabled \in BOOLEAN :
             FileSystemEvent(r, uri, autoStageEnabled) =>
                /\ ~skipNext'
                /\ skipNext =>
                      /\ refreshes' = refreshes
                      /\ NothingChanges
                      /\ events' = <<>>
                /\ ~skipNext =>
                      /\ refreshes[r].pc = "idle"
                      /\ refreshes'[r].pc \in {"isFileTracked", "getStatus"}
       /\ (skipNext /\ ~skipNext') => last'.op = "fsEvent.skipped"]_vars

\* an operation set the flag, one event was swallowed, the following event
\* was handled
C27_Witness ==
    /\ \E o \in OpIds : ops[o].pc = "operation"
    /\ ~skipNext
    /\ last.op \in {"fsEvent.refresh", "fsEvent.isFileTracked"}

\* C29: an event the skip flag does not swallow asks isFileTracked() exactly
\* when it carries a uri, auto-stage is enabled and the path matches no skip
\* pattern, and otherwise calls store.refresh() at once; stageFile() is
\* attempted only after isFileTracked() returned true; whether stageFile()
\* resolves or throws, and when the file is not tracked, store.refresh() is
\* called next; no staging call follows the refresh, and a handler waiting on
\* either call reaches store.refresh().
C29_EventEndsInRefresh ==
    /\ [][\A r \in RefreshIds :
            /\ \A uri \in Uris, autoStageEnabled \in BOOLEAN :
                  (~skipNext /\ FileSystemEvent(r, uri, autoStageEnabled)) =>
                     /\ (refreshes'[r].pc = "isFileTracked") <=>
                           (uri \in {"src/a.ts"} /\ autoStageEnabled)
                     /\ (refreshes'[r].pc = "getStatus") <=>
                           (uri \in {Undefined, "app.log"} \/ ~autoStageEnabled)
            /\ (refreshes'[r].pc = "isFileTracked" /\ refreshes[r].pc # "isFileTracked")
                  => last'.op = "fsEvent.isFileTracked"
            /\ (refreshes'[r].pc = "stageFile" /\ refreshes[r].pc # "stageFile")
                  => (refreshes[r].pc = "isFileTracked" /\ IsFileTrackedResolve(r, TRUE))
            /\ IsFileTrackedResolve(r, FALSE) => refreshes'[r].pc = "getStatus"
            /\ \A ok \in BOOLEAN :
                  StageFileSettle(r, ok) => refreshes'[r].pc = "getStatus"
            /\ refreshes[r].pc \in {"isFileTracked", "stageFile"} =>
                  refreshes'[r].pc \in {refreshes[r].pc, "stageFile", "getStatus"}
            /\ refreshes[r].pc \in {"getStatus", "getUnversioned"} =>
                  refreshes'[r].pc \notin {"isFileTracked", "stageFile"}]_vars
    /\ \A q \in RefreshIds :
          (refreshes[q].pc \in {"isFileTracked", "stageFile"}) ~> (refreshes[q].pc = "getStatus")

\* stageFile() threw and the handler went on to store.refresh()
C29_Witness ==
    /\ last.op = "fsEvent.stageFailed.refresh"
    /\ \E r \in RefreshIds : refreshes[r].pc = "getStatus"
    /\ events = <<<<"refresh">>>>

\* C31: in the commit flow pushCurrentBranch is awaited only right after
\* commitFiles resolved to true and only when the picked action includes push;
\* when commitFiles resolves to false the removed files are put back and no
\* push follows; when the push resolves to false the store is left as it is,
\* nothing is restored.
C31_PushOnlyAfterCommit ==
    [][\A o \in OpIds :
          /\ (ops'[o].pc = "push" /\ ops[o].pc # "push") =>
                /\ ops[o].pc = "operation"
                /\ ops[o].push
                /\ OperationResolve(o, TRUE)
          /\ (ops[o].pc = "operation" /\ OperationResolve(o, FALSE)) =>
                /\ ops'[o].pc = "idle"
                /\ \A f \in RemovedIds(ops[o].snapshot) :
                      CopiesInStore(changelists', unversionedFiles', f) >= 1
          /\ (ops[o].pc = "operation" /\ ~ops[o].push /\ OperationResolve(o, TRUE)) =>
                ops'[o].pc = "idle"
          /\ \A pushed \in BOOLEAN :
                PushResolve(o, pushed) =>
                   /\ NothingChanges
                   /\ Fired(events') = 0
                   /\ ops'[o].pc = "idle"]_vars

\* a commit succeeded, its push failed, and a committed file is still absent
C31_Witness ==
    /\ last.op = "commit.pushFailed"
    /\ \E f \in last.ids : CopiesInStore(changelists, unversionedFiles, f) = 0

\* the files with these ids are in no container after the step
Removed(fileIds) ==
    \A f \in fileIds : CopiesInStore(changelists', unversionedFiles', f) = 0

\* C32 as stated: whenever the commit, revert or stash command starts to await
\* its VCS call, the affected files have been removed from the store.
C32_AllOptimistic ==
    [][\A o \in OpIds :
          (ops'[o].pc \in {"operation", "stashFiles"} /\ ops[o].pc # ops'[o].pc) =>
             Removed(ops'[o].fileIds)]_vars

\* C32 amended: the commit and revert commands remove the affected files and
\* set the skip flag before their VCS call is awaited, and restoreFiles puts
\* the removed files back when the call resolves to false; the stash command
\* leaves the store and the skip flag alone when it awaits stashFiles and
\* when stashFiles resolves to false, and calls store.refresh() when it
\* resolves to true.
C32_CommitRevertOptimistic ==
    [][\A o \in OpIds :
          /\ \A push \in BOOLEAN :
                CommitChoose(o, push) => (Removed(ops[o].fileIds) /\ skipNext')
          /\ \A S \in SUBSET FileIds :
                OptimisticStart(o, S) => (Removed(S) /\ skipNext')
          /\ (ops[o].pc = "operation" /\ OperationResolve(o, FALSE)) =>
                \A f \in RemovedIds(ops[o].snapshot) :
                   CopiesInStore(changelists', unversionedFiles', f) >= 1
          /\ StashMessage(o) =>
                /\ NothingChanges
                /\ skipNext' = skipNext
                /\ events' = <<>>
          /\ \A r \in RefreshIds :
                /\ StashResolve(o, FALSE, r) =>
                      /\ NothingChanges
                      /\ refreshes' = refreshes
                      /\ Fired(events') = 0
                /\ StashResolve(o, TRUE, r) =>
                      /\ NothingChanges
                      /\ refreshes[r].pc = "idle"
                      /\ refreshes'[r].pc = "getStatus"]_vars

\* stashFiles reported failure and the selected files never left the store
C32_Witness ==
    /\ last.op = "stash.failure"
    /\ last.ids # {}
    /\ \A f \in last.ids : CopiesInStore(changelists, unversionedFiles, f) = 1

\* C33: every file in a changelist's list has that changelist's id as its
\* changelistId, and every file in the unversioned bucket has none.
C33_BackReference ==
    /\ \A i \in DOMAIN changelists : \A k \in DOMAIN changelists[i].files :
          changelists[i].files[k].changelistId = changelists[i].id
    /\ \A k \in DOMAIN unversionedFiles :
          unversionedFiles[k].changelistId = Undefined

\* C34: right after the reconciliation of a refresh() whose two queries
\* resolved, whatever the store held before, the changelists hold exactly the
\* ids getStatus() returned, the bucket exactly the ids
\* getUnversionedFiles() returned in their order, every one of these ids is
\* held once, and no other id is held.
C34_RefreshHeals ==
    [][\A r \in RefreshIds, untracked \in SUBSET FileIds :
          RefreshReconcile(r, untracked) =>
             /\ IdsInLists(changelists') = refreshes[r].gitFiles
             /\ Ids(unversionedFiles') = SortedSeq(untracked)
             /\ \A f \in FileIds :
                   CopiesInStore(changelists', unversionedFiles', f) =
                      IF f \in refreshes[r].gitFiles \cup untracked THEN 1 ELSE 0]_vars

\* a refresh has just reconciled a store that held a file twice
C34_Witness ==
    /\ last.op = "refresh"
    /\ last.dups # {}
    /\ Duplicated = {}

\* the keys of a snapshot
SnapshotKeys(snapshot) == {snapshot[e].key : e \in DOMAIN snapshot}

\* C35: when the operation resolves to false, restoreFiles appends the files
\* of every snapshot entry whose changelist still exists to that changelist and
\* the files of the unversioned entry to the bucket; the files recorded under
\* the id of a changelist deleted in the meantime are put nowhere, the default
\* changelist included; one change notification is fired.
C35_RestoreSkipsDeleted ==
    [][\A o \in OpIds :
          (ops[o].pc = "operation" /\ OperationResolve(o, FALSE)) =>
             /\ Len(changelists') = Len(changelists)
             /\ \A i \in DOMAIN changelists :
                   changelists'[i].files =
                      changelists[i].files \o SnapshotFiles(ops[o].snapshot, changelists[i].id)
             /\ unversionedFiles' =
                   unversionedFiles \o SnapshotFiles(ops[o].snapshot, UnversionedSnapshotKey)
             /\ \A f \in FileIds :
                   (\A key \in SnapshotKeys(ops[o].snapshot) :
                       Copies(SnapshotFiles(ops[o].snapshot, key), f) > 0 =>
                          (key # UnversionedSnapshotKey /\ ~HasCl(changelists, key))) =>
                      CopiesInStore(changelists', unversionedFiles', f) =
                         CopiesInStore(changelists, unversionedFiles, f)
             /\ Fired(events') = 1]_vars

\* the operation failed after the changelist of a removed file was deleted:
\* the file is in no container
C35_Witness ==
    /\ last.op \in {"optimistic.failure", "optimistic.failure.interleaved"}
    /\ Len(changelists) = 1
    /\ \E f \in last.ids : CopiesInStore(changelists, unversionedFiles, f) = 0

\* C36: when the operation rejects, the rejection reaches the caller, neither
\* callback runs, nothing is restored and no notification is fired; the store
\* stays as it is, the snapshot is dropped, and afterwards a file comes back
\* into the store only through a refresh or through the restore of another
\* operation that removed it.
C36_RejectionLeavesFilesOut ==
    [][/\ \A o \in OpIds :
             OperationReject(o) =>
                /\ NothingChanges
                /\ events' = <<<<"throw">>>>
                /\ ops'[o] = IdleOp
       /\ \A f \in FileIds :
             CopiesInStore(changelists', unversionedFiles', f) >
                CopiesInStore(changelists, unversionedFiles, f) =>
                   \/ last'.op \in {"refresh", "refresh.overtaken"}
                   \/ /\ last'.op \in {"optimistic.failure", "optimistic.failure.interleaved"}
                      /\ f \in last'.ids]_vars

\* the operation rejected and the files it removed are in no container
C36_Witness ==
    /\ last.op = "optimistic.reject"
    /\ last.ids # {}
    /\ \A f \in last.ids : CopiesInStore(changelists, unversionedFiles, f) = 0

\* C37: the skip flag is one boolean: skipNextRefresh() sets it whether or
\* not it is already set, the operation resolving or rejecting leaves it as
\* it is, and only a filesystem event clears it; an event that finds it set,
\* however many times it was set and whether or not the operation is still
\* running, is dropped without a refresh and leaves it clear.
C37_FlagOutlivesOperation ==
    [][/\ \A o \in OpIds :
             /\ \A S \in SUBSET FileIds : OptimisticStart(o, S) => skipNext'
             /\ \A success \in BOOLEAN :
                   OperationResolve(o, success) => skipNext' = skipNext
             /\ OperationReject(o) => skipNext' = skipNext
       /\ skipNext' # skipNext =>
             \/ skipNext' /\ last'.op = "optimistic.start"
             \/ ~skipNext' /\ last'.op = "fsEvent.skipped"
       /\ last'.op = "fsEvent.skipped" =>
             /\ skipNext
             /\ ~skipNext'
             /\ refreshes' = refreshes
             /\ NothingChanges]_vars

\* an operation settled without any filesystem event and the next operation
\* sets the flag that is still set
C37_Witness ==
    /\ last.op = "optimistic.start"
    /\ last.armed
    /\ skipNext

\* some copy of the file in the store is selected
SelectedInStore(cls, unv, id) ==
    \E x \in Range(getAllFiles(cls, unv)) : x.id = id /\ x.isSelected

\* C38: the reconciliation works from the store as it is when the second
\* query resolves: a reported tracked file that exactly one changelist holds at
\* that moment stays in that changelist, one that no changelist holds goes to
\* the default changelist, and a reported file the store holds once keeps
\* the selection it has at that moment, whatever was done to the store since
\* refresh() was called.
C38_ReconcileFromCurrentState ==
    [][\A r \in RefreshIds, untracked \in SUBSET FileIds :
          RefreshReconcile(r, untracked) =>
             /\ \A f \in refreshes[r].gitFiles :
                   /\ \A i \in DOMAIN changelists :
                         Holders(changelists, f) = {i} => Holds(changelists'[i], f)
                   /\ Holders(changelists, f) = {} =>
                         Holds(changelists'[DefaultIndex(changelists')], f)
             /\ \A f \in refreshes[r].gitFiles \cup untracked :
                   CopiesInStore(changelists, unversionedFiles, f) = 1 =>
                      (SelectedInStore(changelists', unversionedFiles', f) <=>
                          SelectedInStore(changelists, unversionedFiles, f))]_vars

\* the step right before the reconciliation, while both queries were out,
\* moved files to another changelist, and the refreshed store has them there
C38_Witness ==
    /\ last.op = "refresh"
    /\ last.prev.op = "moveChangelistFiles.moved"
    /\ last.prev.ids # {}
    /\ \E i \in DOMAIN changelists :
          /\ ~changelists[i].isDefault
          /\ \A f \in last.prev.ids : Holds(changelists[i], f)

\* C39: moveChangelistFiles(id, id) on an existing changelist leaves it with
\* the same files in the same order, each with this changelist's id as its
\* changelistId, sets its isExpanded to true and changes nothing else in the
\* store.
C39_SelfMoveKeepsFiles ==
    [][\A id \in ExistingIds :
          MoveChangelistFiles(id, id) =>
             LET i == ClIndex(changelists, id)
             IN /\ Len(changelists') = Len(changelists)
                /\ \A j \in DOMAIN changelists : j # i => changelists'[j] = changelists[j]
                /\ Frame(changelists'[i]) = [Frame(changelists[i]) EXCEPT !.isExpanded = TRUE]
                /\ changelists'[i].files =
                      [k \in DOMAIN changelists[i].files |->
                          [changelists[i].files[k] EXCEPT !.changelistId = id]]
                /\ unversionedFiles' = unversionedFiles
                /\ unversionedFilesExpanded' = unversionedFilesExpanded]_vars

\* a collapsed changelist with files was dropped onto itself and still has them
C39_Witness ==
    /\ last.op = "moveChangelistFiles.sameList"
    /\ last.ids # {}
    /\ \E i \in DOMAIN changelists :
          /\ changelists[i].isExpanded
          /\ last.ids = {f.id : f \in Range(changelists[i].files)}

====
